---- MODULE Spec2Model ----
(***************************************************************************)
(* A model of godiff, the structural comparison engine of ralscha/godiff.  *)
(*                                                                         *)
(* Go values are modelled as records over an explicit heap: pointers,      *)
(* maps, slices and funcs carry an address (0 is nil), structs and arrays  *)
(* are inline.  The comparison engine (Compare, compareValues and the      *)
(* comparators it dispatches to) is modelled as state-threading recursive  *)
(* operators: the threaded record st holds the mutable parts of the run    *)
(* (result.Diffs, config.visitedPairs, config.currentDepth) and the way    *)
(* the run ends (err).  One Compare action applies the engine to the       *)
(* inputs chosen by Init.                                                  *)
(***************************************************************************)
EXTENDS Integers, Sequences, FiniteSets, TLC

\* heap, left, right: the two values handed to the comparison and the objects
\* they refer to.  opts: the CompareOption list of Compare.  config: the
\* CompareConfig handed to CompareWithConfig.  pc: "ready" before the call,
\* "done" after it.  out: what the call returned.
VARIABLES heap, left, right, opts, config, pc, out, tagCheck, proc, ctx

vars == <<heap, left, right, opts, config, pc, out, tagCheck, proc, ctx>>

(***************************************************************************)
(* Bounds of the model.                                                    *)
(***************************************************************************)
\* Recursion budget of one Compare call: the goroutine stack is finite, a
\* recursion that exceeds it aborts the program (fatal stack overflow).
MaxStack == 8
\* Length of the rings compared node by node.
MaxRing == 3
\* Largest integer payload of generated scalars.
MaxInt == 2
\* Largest multiplicity of one value in a generated sequence.
MaxCount == 3
\* Iteration orders of a Go map that are explored (range order is random).
MaxSeed == 1
\* Successive calls made on one config.
MaxCalls == 2

(***************************************************************************)
(* reflect.Kind, numbered as in package reflect.                           *)
(***************************************************************************)
KindNum ==
  [invalid |-> 0, bool |-> 1, int |-> 2, int8 |-> 3, int16 |-> 4, int32 |-> 5,
   int64 |-> 6, uint |-> 7, uint8 |-> 8, uint16 |-> 9, uint32 |-> 10,
   uint64 |-> 11, uintptr |-> 12, float32 |-> 13, float64 |-> 14,
   complex64 |-> 15, complex128 |-> 16, array |-> 17, chan |-> 18,
   func |-> 19, interface |-> 20, map |-> 21, ptr |-> 22, slice |-> 23,
   string |-> 24, struct |-> 25, unsafeptr |-> 26]

(***************************************************************************)
(* The types of the modelled programs.  A struct field is                  *)
(* [name, type, tag, exported]; a tag is the diff tag as a string: the     *)
(* sequence of its pieces, each a word ("ignore", "Order", "id", "x"), a   *)
(* blank or a comma, so that "ignoreOrder" is <<"ignore", "Order">>.       *)
(***************************************************************************)
Fld(name, type, tag, exported) ==
  [name |-> name, type |-> type, tag |-> tag, exported |-> exported]

Basic(k) == [kind |-> k]

Types ==
  [int |-> Basic("int"), int32 |-> Basic("int32"), uint |-> Basic("uint"),
   int8 |-> Basic("int8"), int64 |-> Basic("int64"),
   uint8 |-> Basic("uint8"), uint64 |-> Basic("uint64"),
   float64 |-> Basic("float64"), string |-> Basic("string"),
   bool |-> Basic("bool"),
   any |-> [kind |-> "interface"],
   Func |-> [kind |-> "func"],
   Node |-> [kind |-> "struct", name |-> "Node",
             fields |-> << Fld("Name", "string", <<>>, TRUE),
                           Fld("Next", "PtrNode", <<>>, TRUE) >>],
   PtrNode |-> [kind |-> "ptr", elem |-> "Node"],
   Shared |-> [kind |-> "struct", name |-> "Shared",
               fields |-> << Fld("First", "PtrNode", <<>>, TRUE),
                             Fld("Second", "PtrNode", <<>>, TRUE) >>],
   PtrInt |-> [kind |-> "ptr", elem |-> "int"],
   PtrString |-> [kind |-> "ptr", elem |-> "string"],
   SliceInt |-> [kind |-> "slice", elem |-> "int"],
   SliceAny |-> [kind |-> "slice", elem |-> "any"],
   SliceSliceInt |-> [kind |-> "slice", elem |-> "SliceInt"],
   SlicePtrInt |-> [kind |-> "slice", elem |-> "PtrInt"],
   MapAny |-> [kind |-> "map", elem |-> "any"],
   MapInt |-> [kind |-> "map", elem |-> "int"],
   Tagged |-> [kind |-> "struct", name |-> "Tagged",
               fields |-> << Fld("A", "string", <<>>, TRUE),
                             Fld("B", "int", <<"ignore">>, TRUE) >>],
   PtrTagged |-> [kind |-> "ptr", elem |-> "Tagged"],
   SliceTagged |-> [kind |-> "slice", elem |-> "Tagged"],
   ArrTagged |-> [kind |-> "array", elem |-> "Tagged"],
   MapTagged |-> [kind |-> "map", elem |-> "Tagged"],
   Wrap |-> [kind |-> "struct", name |-> "Wrap",
             fields |-> << Fld("T", "Tagged", <<>>, TRUE) >>],
   WrapArr |-> [kind |-> "struct", name |-> "WrapArr",
                fields |-> << Fld("Arr", "ArrTagged", <<>>, TRUE) >>],
   WrapAny |-> [kind |-> "struct", name |-> "WrapAny",
                fields |-> << Fld("F", "float64", <<>>, TRUE),
                              Fld("I", "any", <<>>, TRUE),
                              Fld("S", "SliceAny", <<>>, TRUE) >>],
   WrapFn |-> [kind |-> "struct", name |-> "WrapFn",
               fields |-> << Fld("Fn", "Func", <<>>, TRUE) >>],
   Pair |-> [kind |-> "struct", name |-> "Pair",
             fields |-> << Fld("N", "int", <<>>, TRUE),
                           Fld("P", "PtrTagged", <<>>, TRUE) >>],
   StructWithUnexported |->
     [kind |-> "struct", name |-> "StructWithUnexported",
      fields |-> << Fld("Exported", "string", <<>>, TRUE),
                    Fld("unexported", "int", <<>>, FALSE) >>],
   PtrUnexported |-> [kind |-> "ptr", elem |-> "StructWithUnexported"],
   SliceUnexported |-> [kind |-> "slice", elem |-> "StructWithUnexported"],
   ArrUnexported |-> [kind |-> "array", elem |-> "StructWithUnexported"],
   MapUnexported |-> [kind |-> "map", elem |-> "StructWithUnexported"],
   WrapUnexported |->
     [kind |-> "struct", name |-> "WrapUnexported",
      fields |-> << Fld("S", "StructWithUnexported", <<>>, TRUE),
                    Fld("P", "PtrUnexported", <<>>, TRUE) >>],
   WrapArrUnexported |->
     [kind |-> "struct", name |-> "WrapArrUnexported",
      fields |-> << Fld("Arr", "ArrUnexported", <<>>, TRUE) >>],
   MyStruct |-> [kind |-> "struct", name |-> "MyStruct",
                 fields |-> << Fld("Value", "string", <<>>, TRUE),
                               Fld("Meta", "string", <<>>, TRUE) >>],
   AnotherStruct |-> [kind |-> "struct", name |-> "AnotherStruct",
                      fields |-> << Fld("Name", "string", <<>>, TRUE),
                                    Fld("Meta", "string", <<>>, TRUE) >>],
   NestedStruct |-> [kind |-> "struct", name |-> "NestedStruct",
                     fields |-> << Fld("Left", "MyStruct", <<>>, TRUE),
                                   Fld("Right", "AnotherStruct", <<>>, TRUE) >>],
   TestStruct |-> [kind |-> "struct", name |-> "TestStruct",
                   fields |-> << Fld("ID", "int", <<>>, TRUE),
                                 Fld("Items", "SliceInt", <<"ignore", "Order">>,
                                     TRUE),
                                 Fld("Numbers", "SliceInt", <<>>, TRUE) >>],
   TagStruct |->
     [kind |-> "struct", name |-> "TagStruct",
      fields |-> << Fld("Field1", "string", <<"x">>, TRUE),
                    Fld("Field2", "int", <<"ignore", ",", "x">>, TRUE),
                    Fld("Field3", "bool", <<>>, TRUE),
                    Fld("Field4", "string", <<"ignore", "Order", ",", "x">>,
                        TRUE),
                    Fld("Field5", "SliceInt",
                        <<"x", ",", " ", "ignore", "Order", " ">>, TRUE) >>],
   IDStruct |-> [kind |-> "struct", name |-> "IDStruct",
                 fields |-> << Fld("ID", "int", <<"id">>, TRUE),
                               Fld("Name", "string", <<>>, TRUE),
                               Fld("Age", "int", <<>>, TRUE) >>],
   Item |-> [kind |-> "struct", name |-> "Item",
             fields |-> << Fld("Key", "int", <<>>, TRUE),
                           Fld("Name", "string", <<>>, TRUE),
                           Fld("Sub", "IDStruct", <<>>, TRUE) >>]]

KindOfType(t) == Types[t].kind

RECURSIVE AllComparable(_, _)
RECURSIVE Comparable(_)
\* reflect.Type.Comparable
Comparable(t) ==
  LET d == Types[t] IN
  CASE d.kind \in {"slice", "map", "func"} -> FALSE
    [] d.kind = "array" -> Comparable(d.elem)
    [] d.kind = "struct" -> AllComparable(d.fields, 1)
    [] OTHER -> TRUE

AllComparable(fields, i) ==
  IF i > Len(fields) THEN TRUE
  ELSE Comparable(fields[i].type) /\ AllComparable(fields, i + 1)

(***************************************************************************)
(* Values.  NilV is the nil interface value (an invalid reflect.Value).    *)
(***************************************************************************)
NilV == [k |-> "invalid"]

IntV(t, n) == [k |-> KindOfType(t), t |-> t, n |-> n]
StrV(s) == [k |-> "string", t |-> "string", s |-> s]
FloatV(n) == [k |-> "float64", t |-> "float64", n |-> n, nan |-> FALSE]
NaN == [k |-> "float64", t |-> "float64", n |-> 0, nan |-> TRUE]
RefV(t, a) == [k |-> KindOfType(t), t |-> t, a |-> a]
StructV(t, f) == [k |-> "struct", t |-> t, f |-> f]
ArrayV(t, e) == [k |-> "array", t |-> t, e |-> e]

\* Heap objects: the pointee of a pointer, the entries of a map (distinct
\* keys), the backing array of a slice, the code of a func.
ValObj(v) == [o |-> "val", v |-> v]
MapObj(m) == [o |-> "map", m |-> m]
SeqObj(e) == [o |-> "seq", e |-> e]
FuncObj == [o |-> "func"]
Entry(key, val) == [key |-> key, val |-> val]

IsValid(v) == v.k # "invalid"
TypeOf(v) == v.t
IsRef(v) == v.k \in {"ptr", "map", "slice", "chan", "func"}
\* reflect.Value.IsNil for reference kinds
IsNil(v) == v.a = 0
\* reflect.Value.Pointer
Pointer(v) == v.a
\* reflect.Value.Elem of a non-nil pointer
Elem(h, v) == h[v.a].v

\* reflect.Value.Len and Index of a slice or array
SeqOf(h, v) ==
  IF v.k = "array" THEN v.e
  ELSE IF v.a = 0 THEN <<>> ELSE h[v.a].e

\* the entries of a map value (a nil map has none)
EntriesOf(h, v) == IF v.a = 0 THEN <<>> ELSE h[v.a].m

HasKey(m, key) == \E i \in 1..Len(m) : m[i].key = key
\* reflect.Value.MapIndex: NilV stands for the invalid Value of a missing key
MapIndex(m, key) ==
  IF HasKey(m, key) THEN (m[CHOOSE i \in 1..Len(m) : m[i].key = key]).val
  ELSE NilV

(***************************************************************************)
(* Go's == on two values of the same comparable scalar type.               *)
(***************************************************************************)
GoEq(l, r) ==
  CASE l.k = "string" -> l.s = r.s
    [] l.k = "float64" -> ~l.nan /\ ~r.nan /\ l.n = r.n
    [] l.k \in {"chan", "func", "ptr"} -> l.a = r.a
    [] OTHER -> l.n = r.n

(***************************************************************************)
(* reflect.DeepEqual.  visited is the set of reference pairs under         *)
(* comparison: a pair met again is taken as equal.                         *)
(***************************************************************************)
RECURSIVE deepValueEqual(_, _, _, _)
RECURSIVE deepSeqEqual(_, _, _, _, _)
RECURSIVE deepMapEqual(_, _, _, _, _)

deepValueEqual(h, v1, v2, visited) ==
  IF ~IsValid(v1) \/ ~IsValid(v2) THEN IsValid(v1) = IsValid(v2)
  ELSE IF TypeOf(v1) # TypeOf(v2) THEN FALSE
  ELSE
    LET hard == v1.k \in {"ptr", "map", "slice"} /\ v1.a # 0 /\ v2.a # 0
        seen == hard /\ <<v1.a, v2.a, v1.t>> \in visited
        vis == IF hard THEN visited \cup {<<v1.a, v2.a, v1.t>>} ELSE visited
    IN
    IF seen THEN TRUE
    ELSE
      CASE v1.k = "array" -> deepSeqEqual(h, v1.e, v2.e, 1, vis)
        [] v1.k = "slice" ->
             IF IsNil(v1) # IsNil(v2) THEN FALSE
             ELSE IF Len(SeqOf(h, v1)) # Len(SeqOf(h, v2)) THEN FALSE
             ELSE IF v1.a = v2.a THEN TRUE
             ELSE deepSeqEqual(h, SeqOf(h, v1), SeqOf(h, v2), 1, vis)
        [] v1.k = "ptr" ->
             IF v1.a = v2.a THEN TRUE
             ELSE IF IsNil(v1) \/ IsNil(v2) THEN FALSE
             ELSE deepValueEqual(h, Elem(h, v1), Elem(h, v2), vis)
        [] v1.k = "struct" -> deepSeqEqual(h, v1.f, v2.f, 1, vis)
        [] v1.k = "map" ->
             IF IsNil(v1) # IsNil(v2) THEN FALSE
             ELSE IF Len(EntriesOf(h, v1)) # Len(EntriesOf(h, v2)) THEN FALSE
             ELSE IF v1.a = v2.a THEN TRUE
             ELSE deepMapEqual(h, EntriesOf(h, v1), EntriesOf(h, v2), 1, vis)
        [] v1.k = "func" -> IsNil(v1) /\ IsNil(v2)
        [] OTHER -> GoEq(v1, v2)

deepSeqEqual(h, s1, s2, i, visited) ==
  IF Len(s1) # Len(s2) THEN FALSE
  ELSE IF i > Len(s1) THEN TRUE
  ELSE deepValueEqual(h, s1[i], s2[i], visited)
       /\ deepSeqEqual(h, s1, s2, i + 1, visited)

deepMapEqual(h, m1, m2, i, visited) ==
  IF i > Len(m1) THEN TRUE
  ELSE HasKey(m2, m1[i].key)
       /\ deepValueEqual(h, m1[i].val, MapIndex(m2, m1[i].key), visited)
       /\ deepMapEqual(h, m1, m2, i + 1, visited)

DeepEqual(h, v1, v2) == deepValueEqual(h, v1, v2, {})

(***************************************************************************)
(* Diff records (Diff, StructDiff, SliceDiff, MapDiff).  A nil Left or     *)
(* Right is NilV.                                                          *)
(***************************************************************************)
Diff(path, l, r) == [d |-> "Diff", path |-> path, left |-> l, right |-> r]

StructDiff(path, l, r, fieldName, changeType) ==
  [d |-> "StructDiff", path |-> path, left |-> l, right |-> r,
   fieldName |-> fieldName, changeType |-> changeType]

SliceDiff(path, l, r, index, changeType) ==
  [d |-> "SliceDiff", path |-> path, left |-> l, right |-> r,
   index |-> index, changeType |-> changeType]

MapDiff(path, l, r, key, changeType) ==
  [d |-> "MapDiff", path |-> path, left |-> l, right |-> r,
   key |-> key, changeType |-> changeType]

(***************************************************************************)
(* The state threaded through one comparison: result.Diffs,                *)
(* config.visitedPairs, config.currentDepth, and how the run ends: "nil",  *)
(* "error" (a comparator or handler returned an error), "panic" (a runtime *)
(* panic unwinds the call) or "overflow" (the recursion exhausted the      *)
(* stack).  raised records that a comparator or handler returned an error. *)
(* invoked counts the comparator and handler invocations, and calls keeps  *)
(* one entry per invocation of compareValues: how many invocations enclose *)
(* it, whether the depth limit cut it short, how many diffs and comparator *)
(* or handler invocations happened inside it, and how it ended.            *)
(***************************************************************************)
St0 ==
  [diffs |-> <<>>, vp |-> {}, depth |-> 0, err |-> "nil", raised |-> FALSE,
   invoked |-> 0, calls |-> {}]

Invoke(st) == [st EXCEPT !.invoked = @ + 1]

Invocation(level, truncated, before, after) ==
  [level |-> level, truncated |-> truncated,
   emitted |-> Len(after.diffs) - Len(before.diffs),
   invoked |-> after.invoked - before.invoked, err |-> after.err]

Failed(st) == st.err # "nil"
Emit(st, d) == [st EXCEPT !.diffs = Append(@, d)]
Abort(st, how) == [st EXCEPT !.err = how]

(***************************************************************************)
(* Configuration.                                                          *)
(***************************************************************************)
TimeHandler == [name |-> "TimeHandler"]
InterfaceHandler == [name |-> "InterfaceHandler"]
FunctionHandler == [name |-> "FunctionHandler"]
ChannelHandler == [name |-> "ChannelHandler"]
\* a user handler for one type, as the tests define them: fn is what its
\* Compare does ("equal": no diff, "unequal": one Diff, "error": an error)
UserHandler(type, fn) == [name |-> "UserHandler", type |-> type, fn |-> fn]
\* a user comparator for one type: fn is "equal", "unequal" or "error"
Comparator(type, fn) == [type |-> type, fn |-> fn]

DefaultTypeHandlers ==
  <<TimeHandler, InterfaceHandler, FunctionHandler, ChannelHandler>>

DefaultCompareConfig ==
  [IgnoreFields |-> <<>>, IDFieldNames |-> <<>>, IgnoreSliceOrder |-> FALSE,
   CompareNumericValues |-> FALSE, CustomComparators |-> {},
   TypeHandlers |-> DefaultTypeHandlers, MaxDepth |-> 0,
   ignoreFieldsSet |-> [nil |-> TRUE, set |-> {}],
   identity |-> FALSE, seed |-> 0]

WithIgnoreFields(fields) == [opt |-> "WithIgnoreFields", fields |-> fields]
WithIgnoreSliceOrder == [opt |-> "WithIgnoreSliceOrder"]
WithCompareNumericValues == [opt |-> "WithCompareNumericValues"]
WithCustomComparators(c) == [opt |-> "WithCustomComparators", comparators |-> c]
WithTypeHandlers(hs) == [opt |-> "WithTypeHandlers", handlers |-> hs]
WithMaxDepth(depth) == [opt |-> "WithMaxDepth", depth |-> depth]

ApplyOption(c, o) ==
  CASE o.opt = "WithIgnoreFields" -> [c EXCEPT !.IgnoreFields = o.fields]
    [] o.opt = "WithIgnoreSliceOrder" -> [c EXCEPT !.IgnoreSliceOrder = TRUE]
    [] o.opt = "WithCompareNumericValues" ->
         [c EXCEPT !.CompareNumericValues = TRUE]
    [] o.opt = "WithCustomComparators" ->
         [c EXCEPT !.CustomComparators = o.comparators]
    [] o.opt = "WithTypeHandlers" -> [c EXCEPT !.TypeHandlers = o.handlers]
    [] o.opt = "WithMaxDepth" -> [c EXCEPT !.MaxDepth = o.depth]

RECURSIVE ApplyOptions(_, _, _)
ApplyOptions(c, os, i) ==
  IF i > Len(os) THEN c ELSE ApplyOptions(ApplyOption(c, os[i]), os, i + 1)

Contains(seq, x) == \E i \in 1..Len(seq) : seq[i] = x
SeqToSet(seq) == {seq[i] : i \in 1..Len(seq)}

(***************************************************************************)
(* Small pure helpers of the engine.                                       *)
(***************************************************************************)
Digit == <<"0", "1", "2", "3", "4", "5", "6", "7", "8", "9">>

RECURSIVE itoa(_)
itoa(i) ==
  IF i < 10 THEN Digit[i + 1] ELSE itoa(i \div 10) \o Digit[(i % 10) + 1]

isBasicKind(k) ==
  KindNum[k] <= KindNum["complex128"] \/ k = "string"

isNumericKind(k) ==
  (KindNum[k] >= KindNum["int"] /\ KindNum[k] <= KindNum["float64"])
  \/ k = "complex64" \/ k = "complex128"

isIntegerKind(k) ==
  KindNum[k] >= KindNum["int"] /\ KindNum[k] <= KindNum["uintptr"]

isFloatKind(k) == k = "float32" \/ k = "float64"

isSignedIntKind(k) ==
  KindNum[k] >= KindNum["int"] /\ KindNum[k] <= KindNum["int64"]

isUnsignedIntKind(k) ==
  KindNum[k] >= KindNum["uint"] /\ KindNum[k] <= KindNum["uintptr"]

FloatEq(l, r) ==
  LET ln == IF l.k \in {"float32", "float64"} THEN l.nan ELSE FALSE
      rn == IF r.k \in {"float32", "float64"} THEN r.nan ELSE FALSE
  IN ~ln /\ ~rn /\ l.n = r.n

\* a faulty variant of numericValuesEqual: a signed and an unsigned integer
\* are never equal
numericValuesEqual_SameSign(leftVal, rightVal) ==
  /\ leftVal.n = rightVal.n
  /\ isSignedIntKind(leftVal.k) = isSignedIntKind(rightVal.k)

numericValuesEqual(leftVal, rightVal) ==
  LET leftKind == leftVal.k
      rightKind == rightVal.k
  IN
  IF isSignedIntKind(leftKind) /\ isSignedIntKind(rightKind)
    THEN leftVal.n = rightVal.n
  ELSE IF isUnsignedIntKind(leftKind) /\ isUnsignedIntKind(rightKind)
    THEN leftVal.n = rightVal.n
  ELSE IF isFloatKind(leftKind) /\ isFloatKind(rightKind)
    THEN FloatEq(leftVal, rightVal)
  ELSE IF isSignedIntKind(leftKind) /\ isUnsignedIntKind(rightKind)
    THEN IF leftVal.n < 0 THEN FALSE ELSE leftVal.n = rightVal.n
  ELSE IF isUnsignedIntKind(leftKind) /\ isSignedIntKind(rightKind)
    THEN IF rightVal.n < 0 THEN FALSE ELSE leftVal.n = rightVal.n
  ELSE IF isIntegerKind(leftKind) /\ isFloatKind(rightKind)
    THEN FloatEq(leftVal, rightVal)
  ELSE IF isFloatKind(leftKind) /\ isIntegerKind(rightKind)
    THEN FloatEq(leftVal, rightVal)
  ELSE FALSE

\* a string literal of the source, in pieces
Chars(str) ==
  CASE str = "ignoreOrder" -> <<"ignore", "Order">>
    [] str = "" -> <<>>
    [] OTHER -> <<str>>

RECURSIVE TrimLeft(_)
TrimLeft(str) ==
  IF str # <<>> /\ Head(str) = " " THEN TrimLeft(Tail(str)) ELSE str

RECURSIVE TrimRight(_)
TrimRight(str) ==
  IF str # <<>> /\ str[Len(str)] = " "
    THEN TrimRight(SubSeq(str, 1, Len(str) - 1))
    ELSE str

\* strings.TrimSpace
TrimSpace(str) == TrimRight(TrimLeft(str))

RECURSIVE SplitSeq(_, _)
\* strings.SplitSeq(str, sep): the pieces between the separators, in order
SplitSeq(str, sep) ==
  LET at == {i \in 1..Len(str) : str[i] = sep} IN
  IF at = {} THEN <<str>>
  ELSE LET i == CHOOSE c \in at : \A d \in at : c <= d
       IN <<SubSeq(str, 1, i - 1)>>
          \o SplitSeq(SubSeq(str, i + 1, Len(str)), sep)

\* a faulty variant of hasDiffTag: a token that starts with the value matches
hasDiffTag_Prefix(diffTag, tagValue) ==
  LET tags == SplitSeq(diffTag, ",")
      value == Chars(tagValue)
  IN
  IF diffTag = <<>> THEN FALSE
  ELSE \E i \in DOMAIN tags :
         /\ Len(TrimSpace(tags[i])) >= Len(value)
         /\ SubSeq(TrimSpace(tags[i]), 1, Len(value)) = value

hasDiffTag(diffTag, tagValue) ==
  LET tags == SplitSeq(diffTag, ",") IN
  IF diffTag = <<>> THEN FALSE
  ELSE \E i \in DOMAIN tags : TrimSpace(tags[i]) = Chars(tagValue)

\* a faulty variant of isFieldIgnored: only the bare field name is looked up
isFieldIgnored_NameOnly(fieldPath, fieldName, structType, cfg) ==
  Contains(cfg.IgnoreFields, fieldName)

isFieldIgnored(fieldPath, fieldName, structType, cfg) ==
  IF Len(cfg.IgnoreFields) = 0 THEN FALSE
  ELSE
    LET structTypeName == Types[structType].name
        typeQualifiedName == structTypeName \o "." \o fieldName
    IN
    IF ~cfg.ignoreFieldsSet.nil
      THEN \/ fieldPath \in cfg.ignoreFieldsSet.set
           \/ fieldName \in cfg.ignoreFieldsSet.set
           \/ structTypeName # "" /\ typeQualifiedName \in cfg.ignoreFieldsSet.set
      ELSE \/ Contains(cfg.IgnoreFields, fieldPath)
           \/ Contains(cfg.IgnoreFields, fieldName)
           \/ structTypeName # "" /\ Contains(cfg.IgnoreFields, typeQualifiedName)

\* reflect.Zero(t).Interface() for the field types an identity can have
ZeroOf(t) ==
  CASE KindOfType(t) = "string" -> StrV("")
    [] KindOfType(t) = "float64" -> FloatV(0)
    [] OTHER -> IntV(t, 0)

Some(v) == [has |-> TRUE, id |-> v]
None == [has |-> FALSE, id |-> NilV]

RECURSIVE idByTag(_, _, _)
idByTag(h, val, i) ==
  LET fields == Types[TypeOf(val)].fields IN
  IF i > Len(fields) THEN None
  ELSE IF fields[i].exported /\ hasDiffTag(fields[i].tag, "id")
          /\ ~DeepEqual(h, val.f[i], ZeroOf(fields[i].type))
    THEN Some(val.f[i])
  ELSE idByTag(h, val, i + 1)

FieldIndex(fields, name) ==
  IF \E i \in 1..Len(fields) : fields[i].name = name
    THEN CHOOSE i \in 1..Len(fields) : fields[i].name = name
    ELSE 0

RECURSIVE idByName(_, _, _, _)
idByName(h, val, names, j) ==
  LET fields == Types[TypeOf(val)].fields
      i == FieldIndex(fields, names[j])
  IN
  IF j > Len(names) THEN None
  ELSE IF i # 0 /\ fields[i].exported
          /\ ~DeepEqual(h, val.f[i], ZeroOf(fields[i].type))
    THEN Some(val.f[i])
  ELSE idByName(h, val, names, j + 1)

getObjectID(h, obj, cfg) ==
  IF ~IsValid(obj) THEN None
  ELSE IF obj.k = "ptr" /\ IsNil(obj) THEN None
  ELSE
    LET val == IF obj.k = "ptr" THEN Elem(h, obj) ELSE obj IN
    IF val.k # "struct" THEN None
    ELSE
      LET tagged == idByTag(h, val, 1) IN
      IF tagged.has THEN tagged ELSE idByName(h, val, cfg.IDFieldNames, 1)

(***************************************************************************)
(* Iteration order of a Go map: range visits the keys in an unspecified    *)
(* order.  PermBySeed(seq, seed) is the order chosen by seed.              *)
(***************************************************************************)
RemoveAt(seq, i) == SubSeq(seq, 1, i - 1) \o SubSeq(seq, i + 1, Len(seq))

RECURSIVE PermBySeed(_, _)
PermBySeed(seq, seed) ==
  IF Len(seq) = 0 THEN <<>>
  ELSE LET i == (seed % Len(seq)) + 1
       IN <<seq[i]>> \o PermBySeed(RemoveAt(seq, i), seed \div Len(seq))

(***************************************************************************)
(* == on two interface values, as a Go map keyed by any uses it.           *)
(* Hashable(v) is false where hashing v panics.                            *)
(***************************************************************************)
RECURSIVE Hashable(_)
RECURSIVE AllHashable(_, _)
Hashable(v) ==
  CASE v.k = "invalid" -> TRUE
    [] v.k \in {"slice", "map", "func"} -> FALSE
    [] v.k = "struct" -> AllHashable(v.f, 1)
    [] v.k = "array" -> AllHashable(v.e, 1)
    [] OTHER -> TRUE

AllHashable(seq, i) ==
  IF i > Len(seq) THEN TRUE ELSE Hashable(seq[i]) /\ AllHashable(seq, i + 1)

RECURSIVE KeyEq(_, _)
RECURSIVE AllKeyEq(_, _, _)
KeyEq(l, r) ==
  IF ~IsValid(l) \/ ~IsValid(r) THEN IsValid(l) = IsValid(r)
  ELSE IF TypeOf(l) # TypeOf(r) THEN FALSE
  ELSE CASE l.k = "struct" -> AllKeyEq(l.f, r.f, 1)
         [] l.k = "array" -> AllKeyEq(l.e, r.e, 1)
         [] OTHER -> GoEq(l, r)

AllKeyEq(s1, s2, i) ==
  IF i > Len(s1) THEN TRUE
  ELSE KeyEq(s1[i], s2[i]) /\ AllKeyEq(s1, s2, i + 1)

\* the number of elements of seq that are the map key e
CountOf(seq, e) == Cardinality({j \in 1..Len(seq) : KeyEq(e, seq[j])})

\* the keys of the count map built from seq, in order of first insertion
RECURSIVE CountKeys(_, _)
CountKeys(seq, i) ==
  IF i > Len(seq) THEN <<>>
  ELSE IF \E k \in 1..(i - 1) : KeyEq(seq[k], seq[i])
         THEN CountKeys(seq, i + 1)
         ELSE <<seq[i]>> \o CountKeys(seq, i + 1)

\* leftCounts[e] of a key e of the map (a NaN is a key of its own every time)
CountIn(seq, e) == IF KeyEq(e, e) THEN CountOf(seq, e) ELSE 1

RECURSIVE Repeat(_, _)
Repeat(d, n) == IF n <= 0 THEN <<>> ELSE <<d>> \o Repeat(d, n - 1)

\* threshold below which order-insensitive comparison skips the count maps
SmallSlice == 5

(***************************************************************************)
(* Order-insensitive slice comparison.                                     *)
(***************************************************************************)
\* first unmatched right index whose element is deep-equal to leftElem, or 0
FirstMatch(h, leftElem, rs, rightMatched) ==
  LET c == {j \in 1..Len(rs) :
              ~rightMatched[j] /\ DeepEqual(h, leftElem, rs[j])}
  IN IF c = {} THEN 0 ELSE CHOOSE j \in c : \A k \in c : j <= k

RECURSIVE unorderedLeft(_, _, _, _, _, _, _)
unorderedLeft(h, path, ls, rs, i, rightMatched, st) ==
  IF i > Len(ls) THEN [st |-> st, rightMatched |-> rightMatched]
  ELSE
    LET j == FirstMatch(h, ls[i], rs, rightMatched) IN
    IF j # 0
      THEN unorderedLeft(h, path, ls, rs, i + 1,
                         [rightMatched EXCEPT ![j] = TRUE], st)
      ELSE unorderedLeft(h, path, ls, rs, i + 1, rightMatched,
                         Emit(st, Diff(path, ls[i], NilV)))

RECURSIVE unorderedRight(_, _, _, _, _)
unorderedRight(path, rs, j, rightMatched, st) ==
  IF j > Len(rs) THEN st
  ELSE IF ~rightMatched[j]
    THEN unorderedRight(path, rs, j + 1, rightMatched,
                        Emit(st, Diff(path, NilV, rs[j])))
    ELSE unorderedRight(path, rs, j + 1, rightMatched, st)

compareSlicesUnordered(h, path, leftVal, rightVal, st) ==
  LET ls == SeqOf(h, leftVal)
      rs == SeqOf(h, rightVal)
      m == unorderedLeft(h, path, ls, rs, 1, [j \in 1..Len(rs) |-> FALSE], st)
  IN unorderedRight(path, rs, 1, m.rightMatched, m.st)

compareSlicesSimple(h, path, leftVal, rightVal, st) ==
  compareSlicesUnordered(h, path, leftVal, rightVal, st)

compareSlicesWithDeepEqual(h, path, leftVal, rightVal, st) ==
  compareSlicesUnordered(h, path, leftVal, rightVal, st)

RECURSIVE countRemoved(_, _, _, _, _, _)
countRemoved(path, keys, ls, rs, i, st) ==
  IF i > Len(keys) THEN st
  ELSE LET leftCount == CountIn(ls, keys[i])
           rightCount == CountOf(rs, keys[i])
       IN countRemoved(path, keys, ls, rs, i + 1,
            [st EXCEPT !.diffs =
               @ \o Repeat(Diff(path, keys[i], NilV), leftCount - rightCount)])

\* a faulty variant of the second loop over the count maps: nothing is added
countAdded_None(path, keys, ls, rs, i, st) == st

RECURSIVE countAdded(_, _, _, _, _, _)
countAdded(path, keys, ls, rs, i, st) ==
  IF i > Len(keys) THEN st
  ELSE LET rightCount == CountIn(rs, keys[i])
           leftCount == CountOf(ls, keys[i])
       IN countAdded(path, keys, ls, rs, i + 1,
            [st EXCEPT !.diffs =
               @ \o Repeat(Diff(path, NilV, keys[i]), rightCount - leftCount)])

compareSlicesByValue(h, path, leftVal, rightVal, cfg, st) ==
  LET elemType == Types[TypeOf(leftVal)].elem
      ls == SeqOf(h, leftVal)
      rs == SeqOf(h, rightVal)
  IN
  IF ~Comparable(elemType)
    THEN compareSlicesWithDeepEqual(h, path, leftVal, rightVal, st)
  ELSE IF Len(ls) <= SmallSlice /\ Len(rs) <= SmallSlice
    THEN compareSlicesSimple(h, path, leftVal, rightVal, st)
  ELSE IF \E i \in 1..Len(ls) : ~Hashable(ls[i]) THEN Abort(st, "panic")
  ELSE IF \E i \in 1..Len(rs) : ~Hashable(rs[i]) THEN Abort(st, "panic")
  ELSE
    LET removed == countRemoved(path, PermBySeed(CountKeys(ls, 1), cfg.seed),
                                ls, rs, 1, st)
    IN countAdded(path, PermBySeed(CountKeys(rs, 1), cfg.seed), ls, rs, 1,
                  removed)

compareSlicesAdvanced(h, path, leftVal, rightVal, cfg, st) ==
  IF ~IsValid(leftVal) /\ ~IsValid(rightVal) THEN st
  ELSE IF ~IsValid(leftVal) THEN Emit(st, Diff(path, NilV, rightVal))
  ELSE IF ~IsValid(rightVal) THEN Emit(st, Diff(path, leftVal, NilV))
  ELSE IF TypeOf(leftVal) # TypeOf(rightVal)
    THEN Emit(st, Diff(path, leftVal, rightVal))
  ELSE compareSlicesByValue(h, path, leftVal, rightVal, cfg, st)

(***************************************************************************)
(* The recursive dispatcher and the comparators it recurses through.       *)
(* fuel is what is left of the stack: every nested compareValues takes one *)
(* unit.                                                                   *)
(***************************************************************************)
RECURSIVE compareValues(_, _, _, _, _, _, _)
RECURSIVE dispatch(_, _, _, _, _, _, _)
RECURSIVE compareStructs(_, _, _, _, _, _, _)
RECURSIVE compareStructsByID(_, _, _, _, _, _, _)
RECURSIVE structFields(_, _, _, _, _, _, _, _)
RECURSIVE compareField(_, _, _, _, _, _, _, _)
RECURSIVE compareSlices(_, _, _, _, _, _, _)
RECURSIVE sliceElems(_, _, _, _, _, _, _, _)
RECURSIVE compareMaps(_, _, _, _, _, _, _)
RECURSIVE mapLeftKeys(_, _, _, _, _, _, _, _, _)
RECURSIVE comparePointers(_, _, _, _, _, _, _)
RECURSIVE handlerCompare(_, _, _, _, _, _, _, _)

\* compareValues, the deferred function: currentDepth is decremented when the
\* invocation counted itself
Deferred(cfg, sub) ==
  IF cfg.MaxDepth > 0 THEN [sub EXCEPT !.depth = @ - 1] ELSE sub

IgnoredPath(path, cfg) ==
  IF ~cfg.ignoreFieldsSet.nil THEN path \in cfg.ignoreFieldsSet.set
  ELSE Contains(cfg.IgnoreFields, path)

\* a faulty variant of handleInvalidValues: two nil values are reported
handleInvalidValues_BothReported(path, l, r, st) ==
  IF ~IsValid(l) \/ ~IsValid(r)
    THEN [handled |-> TRUE, st |-> Emit(st, Diff(path, l, r))]
    ELSE [handled |-> FALSE, st |-> st]

handleInvalidValues(path, l, r, st) ==
  IF ~IsValid(l) /\ ~IsValid(r) THEN [handled |-> TRUE, st |-> st]
  ELSE IF ~IsValid(l)
    THEN [handled |-> TRUE, st |-> Emit(st, Diff(path, NilV, r))]
  ELSE IF ~IsValid(r)
    THEN [handled |-> TRUE, st |-> Emit(st, Diff(path, l, NilV))]
  ELSE [handled |-> FALSE, st |-> st]

HasComparator(cfg, t) == \E c \in cfg.CustomComparators : c.type = t
ComparatorFor(cfg, t) == CHOOSE c \in cfg.CustomComparators : c.type = t

CanHandle(handler, t) ==
  CASE handler.name = "TimeHandler" -> t = "Time"
    [] handler.name = "InterfaceHandler" -> KindOfType(t) = "interface"
    [] handler.name = "FunctionHandler" -> KindOfType(t) = "func"
    [] handler.name = "ChannelHandler" -> KindOfType(t) = "chan"
    [] OTHER -> t = handler.type

\* index of the first handler that claims t, or 0
\* a faulty variant of FirstHandler: the last accepting handler wins
FirstHandler_Last(cfg, t) ==
  LET c == {i \in 1..Len(cfg.TypeHandlers) : CanHandle(cfg.TypeHandlers[i], t)}
  IN IF c = {} THEN 0 ELSE CHOOSE i \in c : \A k \in c : i >= k

FirstHandler(cfg, t) ==
  LET c == {i \in 1..Len(cfg.TypeHandlers) : CanHandle(cfg.TypeHandlers[i], t)}
  IN IF c = {} THEN 0 ELSE CHOOSE i \in c : \A k \in c : i <= k

\* a faulty variant of compareValues: the limit is reached one level late
compareValues_OneLate(h, fuel, path, l, r, cfg, st) ==
  LET truncated == cfg.MaxDepth > 0 /\ st.depth > cfg.MaxDepth
      res ==
        IF cfg.MaxDepth > 0
          THEN IF truncated THEN st
               ELSE LET sub == dispatch(h, fuel - 1, path, l, r, cfg,
                                        [st EXCEPT !.depth = @ + 1])
                    IN [sub EXCEPT !.depth = @ - 1]
          ELSE dispatch(h, fuel - 1, path, l, r, cfg, st)
  IN
  IF fuel = 0 THEN Abort(st, "overflow")
  ELSE [res EXCEPT !.calls =
          @ \cup {Invocation(MaxStack - fuel, truncated, st, res)}]

compareValues(h, fuel, path, l, r, cfg, st) ==
  LET truncated == cfg.MaxDepth > 0 /\ st.depth >= cfg.MaxDepth
      res ==
        IF truncated THEN st
        ELSE Deferred(cfg, dispatch(h, fuel - 1, path, l, r, cfg,
                                   IF cfg.MaxDepth > 0
                                     THEN [st EXCEPT !.depth = @ + 1]
                                     ELSE st))
  IN
  IF fuel = 0 THEN Abort(st, "overflow")
  ELSE [res EXCEPT !.calls =
          @ \cup {Invocation(MaxStack - fuel, truncated, st, res)}]

\* a faulty variant of the type check: the mismatch is dropped
typeMismatch_Silent(path, l, r, cfg, st) == st

\* compareValues, the block taken when the two runtime types differ
typeMismatch(path, l, r, cfg, st) ==
  IF l.k = "ptr" /\ r.k = "ptr" /\ IsNil(l) /\ IsNil(r) THEN st
  ELSE IF cfg.CompareNumericValues /\ isNumericKind(l.k)
          /\ isNumericKind(r.k)
    THEN IF numericValuesEqual(l, r) THEN st
         ELSE Emit(st, Diff(path, l, r))
  ELSE Emit(st, Diff(path, l, r))

dispatch(h, fuel, path, l, r, cfg, st) ==
  IF IgnoredPath(path, cfg) THEN st
  ELSE IF /\ IsValid(l) /\ IsValid(r)
          /\ TypeOf(l) = TypeOf(r)
          /\ l.k \in {"ptr", "map", "slice", "chan", "func"}
          /\ Pointer(l) = Pointer(r)
    THEN st
  ELSE
    LET inv == handleInvalidValues(path, l, r, st) IN
    IF inv.handled THEN inv.st
    ELSE
      LET leftType == TypeOf(l)
          rightType == TypeOf(r)
          handler == FirstHandler(cfg, leftType)
      IN
      IF leftType # rightType THEN typeMismatch(path, l, r, cfg, st)
      ELSE IF HasComparator(cfg, leftType) THEN
        LET fn == ComparatorFor(cfg, leftType).fn IN
        CASE fn = "error" ->
               [Invoke(st) EXCEPT !.err = "error", !.raised = TRUE]
          [] fn = "unequal" -> Emit(Invoke(st), Diff(path, l, r))
          [] OTHER -> Invoke(st)
      ELSE IF handler # 0
        THEN handlerCompare(h, fuel, cfg.TypeHandlers[handler], path, l, r,
                            cfg, Invoke(st))
      ELSE
        CASE l.k = "struct" ->
               IF cfg.identity
                 THEN compareStructsByID(h, fuel, path, l, r, cfg, st)
                 ELSE compareStructs(h, fuel, path, l, r, cfg, st)
          [] l.k \in {"slice", "array"} ->
               compareSlices(h, fuel, path, l, r, cfg, st)
          [] l.k = "map" -> compareMaps(h, fuel, path, l, r, cfg, st)
          [] l.k = "ptr" -> comparePointers(h, fuel, path, l, r, cfg, st)
          [] OTHER ->
               IF Comparable(TypeOf(l))
                 THEN IF ~GoEq(l, r) THEN Emit(st, Diff(path, l, r)) ELSE st
                 ELSE IF ~DeepEqual(h, l, r) THEN Emit(st, Diff(path, l, r))
                      ELSE st

handlerCompare(h, fuel, handler, path, l, r, cfg, st) ==
  CASE handler.name = "FunctionHandler" ->
         IF IsNil(l) /\ IsNil(r) THEN st
         ELSE IF IsNil(l) \/ IsNil(r) THEN Emit(st, Diff(path, l, r))
         ELSE IF Pointer(l) # Pointer(r) THEN Emit(st, Diff(path, l, r))
         ELSE st
    [] handler.name = "ChannelHandler" ->
         IF ~GoEq(l, r) THEN Emit(st, Diff(path, l, r)) ELSE st
    [] handler.name = "UserHandler" ->
         CASE handler.fn = "error" ->
                [st EXCEPT !.err = "error", !.raised = TRUE]
           [] handler.fn = "unequal" -> Emit(st, Diff(path, l, r))
           [] OTHER -> st
    \* TimeHandler and InterfaceHandler claim no type a modelled value has:
    \* no dynamic type is time.Time or has Kind Interface
    [] OTHER -> st

compareStructs(h, fuel, path, leftVal, rightVal, cfg, st) ==
  structFields(h, fuel, path, leftVal, rightVal, cfg, st, 1)

\* a faulty variant of the identity check: identities are not looked at
compareStructsByID_Unchecked(h, fuel, path, leftVal, rightVal, cfg, st) ==
  structFields(h, fuel, path, leftVal, rightVal, cfg, st, 1)

compareStructsByID(h, fuel, path, leftVal, rightVal, cfg, st) ==
  LET leftID == getObjectID(h, leftVal, cfg)
      rightID == getObjectID(h, rightVal, cfg)
  IN
  IF leftID.has /\ rightID.has /\ ~DeepEqual(h, leftID.id, rightID.id)
    THEN Emit(st, StructDiff(path, leftVal, rightVal, "", "ID_MISMATCH"))
    ELSE structFields(h, fuel, path, leftVal, rightVal, cfg, st, 1)

structFields(h, fuel, path, leftVal, rightVal, cfg, st, i) ==
  IF i > Len(Types[TypeOf(leftVal)].fields) \/ Failed(st) THEN st
  ELSE structFields(h, fuel, path, leftVal, rightVal, cfg,
                    compareField(h, fuel, path, leftVal, rightVal, cfg, st, i),
                    i + 1)

\* a faulty variant of compareField: the ignoreOrder tag has no effect
compareField_Untagged(h, fuel, path, leftVal, rightVal, cfg, st, i) ==
  LET typ == TypeOf(leftVal)
      field == Types[typ].fields[i]
      fieldPath == IF path = "" THEN field.name ELSE path \o "." \o field.name
      leftField == leftVal.f[i]
      rightField == rightVal.f[i]
      \* leftField.Kind(): the kind of the field's declared type
      leftKind == KindOfType(field.type)
      modifiedConfig == cfg
  IN
  IF ~field.exported THEN st
  ELSE IF isFieldIgnored(fieldPath, field.name, typ, cfg)
          \/ hasDiffTag(field.tag, "ignore")
    THEN st
  ELSE IF leftKind = "slice"
    THEN compareSlices(h, fuel, fieldPath, leftField, rightField,
                       modifiedConfig, st)
  ELSE IF ~DeepEqual(h, leftField, rightField)
    THEN IF leftKind \in {"ptr", "struct", "map", "interface"}
           THEN compareValues(h, fuel, fieldPath, leftField, rightField, cfg, st)
           ELSE Emit(st, StructDiff(fieldPath, leftField, rightField,
                                    field.name, "UPDATED"))
  ELSE st

compareField(h, fuel, path, leftVal, rightVal, cfg, st, i) ==
  LET typ == TypeOf(leftVal)
      field == Types[typ].fields[i]
      fieldPath == IF path = "" THEN field.name ELSE path \o "." \o field.name
      leftField == leftVal.f[i]
      rightField == rightVal.f[i]
      \* leftField.Kind(): the kind of the field's declared type
      leftKind == KindOfType(field.type)
      \* the locally overridden config copies these fields only
      modifiedConfig ==
        IF hasDiffTag(field.tag, "ignoreOrder")
          THEN [DefaultCompareConfig EXCEPT
                  !.IgnoreFields = cfg.IgnoreFields,
                  !.IDFieldNames =
                     IF cfg.identity THEN cfg.IDFieldNames ELSE <<>>,
                  !.IgnoreSliceOrder = TRUE,
                  !.CustomComparators = cfg.CustomComparators,
                  !.TypeHandlers = cfg.TypeHandlers,
                  !.ignoreFieldsSet = cfg.ignoreFieldsSet,
                  !.MaxDepth = cfg.MaxDepth,
                  !.identity = cfg.identity,
                  !.seed = cfg.seed]
          ELSE cfg
  IN
  IF ~field.exported THEN st
  ELSE IF isFieldIgnored(fieldPath, field.name, typ, cfg)
          \/ hasDiffTag(field.tag, "ignore")
    THEN st
  ELSE IF leftKind = "slice"
    THEN compareSlices(h, fuel, fieldPath, leftField, rightField,
                       modifiedConfig, st)
  ELSE IF ~DeepEqual(h, leftField, rightField)
    THEN IF leftKind \in {"ptr", "struct", "map", "interface"}
           THEN compareValues(h, fuel, fieldPath, leftField, rightField, cfg, st)
           ELSE Emit(st, StructDiff(fieldPath, leftField, rightField,
                                    field.name, "UPDATED"))
  ELSE st

\* a faulty variant of compareSlices: positions beyond the shorter sequence
\* are not visited
compareSlices_Common(h, fuel, path, leftVal, rightVal, cfg, st) ==
  LET ls == SeqOf(h, leftVal)
      rs == SeqOf(h, rightVal)
      n == IF Len(ls) < Len(rs) THEN Len(ls) ELSE Len(rs)
  IN
  IF cfg.IgnoreSliceOrder
    THEN compareSlicesAdvanced(h, path, leftVal, rightVal, cfg, st)
    ELSE sliceElems(h, fuel, path, SubSeq(ls, 1, n), SubSeq(rs, 1, n), cfg, st,
                    0)

compareSlices(h, fuel, path, leftVal, rightVal, cfg, st) ==
  IF cfg.IgnoreSliceOrder
    THEN compareSlicesAdvanced(h, path, leftVal, rightVal, cfg, st)
    ELSE sliceElems(h, fuel, path, SeqOf(h, leftVal), SeqOf(h, rightVal), cfg,
                    st, 0)

sliceElems(h, fuel, path, ls, rs, cfg, st, i) ==
  LET leftLen == Len(ls)
      rightLen == Len(rs)
      maxLen == IF rightLen > leftLen THEN rightLen ELSE leftLen
      hasLeftElem == i < leftLen
      hasRightElem == i < rightLen
      leftElem == IF hasLeftElem THEN ls[i + 1] ELSE NilV
      rightElem == IF hasRightElem THEN rs[i + 1] ELSE NilV
      elementPath == path \o "[" \o itoa(i) \o "]"
      next ==
        IF hasLeftElem /\ hasRightElem
          THEN IF isBasicKind(leftElem.k) /\ ~DeepEqual(h, leftElem, rightElem)
                 THEN Emit(st, SliceDiff(path, leftElem, rightElem, i, "UPDATED"))
                 ELSE compareValues(h, fuel, elementPath, leftElem, rightElem,
                                    cfg, st)
        ELSE IF hasLeftElem
          THEN Emit(st, SliceDiff(path, leftElem, NilV, i, "REMOVED"))
        ELSE Emit(st, SliceDiff(path, NilV, rightElem, i, "ADDED"))
  IN
  IF i >= maxLen \/ Failed(st) THEN st
  ELSE sliceElems(h, fuel, path, ls, rs, cfg, next, i + 1)

RECURSIVE mapRightKeys(_, _, _, _, _)
\* a faulty variant of the added-keys loop: keys only on the right are lost
mapRightKeys_None(path, keys, lm, rm, st) == st

mapRightKeys(path, keys, lm, rm, st) ==
  IF Len(keys) = 0 THEN st
  ELSE
    LET key == keys[1]
        elementPath == path \o "[" \o key \o "]"
    IN
    IF ~HasKey(lm, key)
      THEN mapRightKeys(path, Tail(keys), lm, rm,
             Emit(st, MapDiff(elementPath, NilV, MapIndex(rm, key), key, "ADDED")))
      ELSE mapRightKeys(path, Tail(keys), lm, rm, st)

MapKeys(m) == [i \in 1..Len(m) |-> m[i].key]

compareMaps(h, fuel, path, leftVal, rightVal, cfg, st) ==
  LET lm == EntriesOf(h, leftVal)
      rm == EntriesOf(h, rightVal)
      afterLeft == mapLeftKeys(h, fuel, path, PermBySeed(MapKeys(lm), cfg.seed),
                               lm, rm, cfg, st, 1)
  IN
  IF Failed(afterLeft) THEN afterLeft
  ELSE mapRightKeys(path, PermBySeed(MapKeys(rm), cfg.seed), lm, rm, afterLeft)

mapLeftKeys(h, fuel, path, keys, lm, rm, cfg, st, i) ==
  IF i > Len(keys) \/ Failed(st) THEN st
  ELSE
    LET key == keys[i]
        elementPath == path \o "[" \o key \o "]"
        leftInterface == MapIndex(lm, key)
        rightInterface == MapIndex(rm, key)
        updated == MapDiff(elementPath, leftInterface, rightInterface, key,
                           "UPDATED")
        tempResult == compareValues(h, fuel, elementPath, leftInterface,
                                    rightInterface, cfg,
                                    [st EXCEPT !.diffs = <<>>])
        next ==
          IF ~HasKey(rm, key)
            THEN Emit(st, MapDiff(elementPath, leftInterface, NilV, key,
                                  "REMOVED"))
          \* reflect.Value.Type panics on the zero Value of a nil interface
          ELSE IF ~cfg.identity
                  /\ (~IsValid(leftInterface) \/ ~IsValid(rightInterface))
            THEN Abort(st, "panic")
          ELSE IF ~cfg.identity /\ TypeOf(leftInterface) # TypeOf(rightInterface)
            THEN IF cfg.CompareNumericValues /\ isNumericKind(leftInterface.k)
                    /\ isNumericKind(rightInterface.k)
                   THEN IF ~numericValuesEqual(leftInterface, rightInterface)
                          THEN Emit(st, updated) ELSE st
                   ELSE Emit(st, updated)
          ELSE IF isBasicKind(leftInterface.k)
            THEN IF ~DeepEqual(h, leftInterface, rightInterface)
                   THEN Emit(st, updated) ELSE st
          ELSE [tempResult EXCEPT !.diffs = st.diffs \o @]
    IN mapLeftKeys(h, fuel, path, keys, lm, rm, cfg, next, i + 1)

\* a faulty variant of comparePointers: no visited-pair guard
comparePointers_Unguarded(h, fuel, path, leftVal, rightVal, cfg, st) ==
  IF IsNil(leftVal) /\ IsNil(rightVal) THEN st
  ELSE IF IsNil(leftVal)
    THEN compareValues(h, fuel, path, NilV, Elem(h, rightVal), cfg, st)
  ELSE IF IsNil(rightVal)
    THEN compareValues(h, fuel, path, Elem(h, leftVal), NilV, cfg, st)
  ELSE compareValues(h, fuel, path, Elem(h, leftVal), Elem(h, rightVal), cfg,
                     st)

\* a faulty variant of comparePointers: a visited pair stays marked
comparePointers_Kept(h, fuel, path, leftVal, rightVal, cfg, st) ==
  IF IsNil(leftVal) /\ IsNil(rightVal) THEN st
  ELSE IF IsNil(leftVal)
    THEN compareValues(h, fuel, path, NilV, Elem(h, rightVal), cfg, st)
  ELSE IF IsNil(rightVal)
    THEN compareValues(h, fuel, path, Elem(h, leftVal), NilV, cfg, st)
  ELSE
    LET pairKey == <<Pointer(leftVal), Pointer(rightVal)>> IN
    IF pairKey \in st.vp THEN st
    ELSE compareValues(h, fuel, path, Elem(h, leftVal), Elem(h, rightVal),
                       cfg, [st EXCEPT !.vp = @ \cup {pairKey}])

comparePointers(h, fuel, path, leftVal, rightVal, cfg, st) ==
  IF IsNil(leftVal) /\ IsNil(rightVal) THEN st
  ELSE IF IsNil(leftVal)
    THEN compareValues(h, fuel, path, NilV, Elem(h, rightVal), cfg, st)
  ELSE IF IsNil(rightVal)
    THEN compareValues(h, fuel, path, Elem(h, leftVal), NilV, cfg, st)
  ELSE
    LET pairKey == <<Pointer(leftVal), Pointer(rightVal)>> IN
    IF pairKey \in st.vp THEN st
    ELSE
      LET res == compareValues(h, fuel, path, Elem(h, leftVal),
                               Elem(h, rightVal), cfg,
                               [st EXCEPT !.vp = @ \cup {pairKey}])
      \* a panic or a stack overflow unwinds past the delete
      IN IF res.err \in {"panic", "overflow"} THEN res
         ELSE [res EXCEPT !.vp = @ \ {pairKey}]

(***************************************************************************)
(* The entry points.                                                       *)
(***************************************************************************)
\* what Compare hands back: result (nil or a DiffResult) and err; a panic or a
\* stack overflow never returns, and is recorded in err.  raised, collected,
\* visitedPairs, currentDepth and calls observe the run: whether a
\* comparator or handler returned an error, how many diffs had been
\* collected when the run ended, the traversal state left in the config,
\* and the invocations of compareValues.
\* a faulty variant of the return of Compare: the diffs collected so far are
\* handed back whatever the error
Return_Partial(st) ==
  [result |-> [nil |-> FALSE, Diffs |-> st.diffs],
   err |-> "nil",
   raised |-> st.raised,
   collected |-> Len(st.diffs),
   visitedPairs |-> st.vp,
   currentDepth |-> st.depth,
   calls |-> st.calls]

Return(st) ==
  [result |-> IF st.err = "nil" THEN [nil |-> FALSE, Diffs |-> st.diffs]
              ELSE [nil |-> TRUE, Diffs |-> <<>>],
   err |-> st.err,
   raised |-> st.raised,
   collected |-> Len(st.diffs),
   visitedPairs |-> st.vp,
   currentDepth |-> st.depth,
   calls |-> st.calls]

BuildIgnoreSet(c) ==
  IF c.ignoreFieldsSet.nil /\ Len(c.IgnoreFields) > 0
    THEN [c EXCEPT !.ignoreFieldsSet =
            [nil |-> FALSE, set |-> SeqToSet(c.IgnoreFields)]]
    ELSE c

\* Compare(left, right, opts...)
CompareOp(h, l, r, os, seed) ==
  LET cfg == [BuildIgnoreSet(ApplyOptions(DefaultCompareConfig, os, 1))
                EXCEPT !.seed = seed]
  IN Return(compareValues(h, MaxStack, "", l, r, cfg, St0))

\* CompareWithConfig(left, right, config) of the revision with identity
\* matching: no depth limit, no numeric coercion, no ignore set
CompareWithConfigOp(h, l, r, c, seed) ==
  LET cfg == [c EXCEPT !.identity = TRUE, !.seed = seed]
  IN Return(compareValues(h, MaxStack, "", l, r, cfg, St0))

NoResult == [result |-> [nil |-> TRUE, Diffs |-> <<>>], err |-> "nil",
             raised |-> FALSE, collected |-> 0, visitedPairs |-> {},
             currentDepth |-> 0, calls |-> {}]

Compare ==
  /\ pc = "ready"
  /\ \E seed \in 0..MaxSeed : out' = CompareOp(heap, left, right, opts, seed)
  /\ pc' = "done"
  /\ UNCHANGED <<heap, left, right, opts, config, tagCheck, proc, ctx>>

CompareWithConfig ==
  /\ pc = "ready"
  /\ \E seed \in 0..MaxSeed :
       out' = CompareWithConfigOp(heap, left, right, config, seed)
  /\ pc' = "done"
  /\ UNCHANGED <<heap, left, right, opts, config, tagCheck, proc, ctx>>

(***************************************************************************)
(* Concurrent calls.  Each goroutine in Procs calls Compare(left, right,   *)
(* opts...) on one pair of pointer structures and takes the call one       *)
(* invocation of compareValues at a time.  proc[p] is the goroutine's      *)
(* position: the values under comparison, the path, the invocations to     *)
(* return from (whether each incremented currentDepth, and the pointer     *)
(* pair it marked, if any) and the result so far.  ctx holds the traversal *)
(* contexts (visitedPairs, currentDepth) of the configs in use.            *)
(***************************************************************************)
Procs == {1, 2}

\* a faulty variant of Context: one config serves every call
Context_Shared(p) == 1

\* the config of the call of goroutine p: DefaultCompareConfig() allocates
\* one per call
Context(p) == p

FreshContext == [visitedPairs |-> {}, currentDepth |-> 0]
Frame(inc, pair) == [inc |-> inc, pair |-> pair]
FieldPathOf(path, name) == IF path = "" THEN name ELSE path \o "." \o name

\* Compare, up to the first call of compareValues
Call(p) ==
  /\ proc[p].pc = "start"
  /\ proc[p].calls < MaxCalls
  /\ ctx' = [ctx EXCEPT ![Context(p)] = FreshContext]
  /\ proc' = [proc EXCEPT ![p] = [pc |-> "values", l |-> left, r |-> right,
                                  path |-> "", stack |-> <<>>,
                                  diffs |-> <<>>, err |-> "nil",
                                  calls |-> proc[p].calls + 1]]
  /\ UNCHANGED <<heap, left, right, opts, config, pc, out, tagCheck>>

\* CompareWithConfig(left, right, config) of the revision that keeps the
\* traversal state in the caller's config, up to the first call of
\* compareValues: visitedPairs is made only when it is nil, currentDepth is
\* reset
CallWithConfig(p) ==
  /\ proc[p].pc \in {"start", "done"}
  /\ proc[p].calls < MaxCalls
  /\ ctx' = [ctx EXCEPT ![Context(p)].currentDepth = 0]
  /\ proc' = [proc EXCEPT ![p] = [pc |-> "values", l |-> left, r |-> right,
                                  path |-> "", stack |-> <<>>,
                                  diffs |-> <<>>, err |-> "nil",
                                  calls |-> proc[p].calls + 1]]
  /\ UNCHANGED <<heap, left, right, opts, config, pc, out, tagCheck>>

\* a faulty variant of Leave: the pair stays marked
Leave_Marked(c, top) ==
  [visitedPairs |-> c.visitedPairs,
   currentDepth |-> IF top.inc THEN c.currentDepth - 1 ELSE c.currentDepth]

\* the traversal state after the return of an invocation of compareValues:
\* comparePointers deletes the pair it marked, the deferred function
\* decrements currentDepth
Leave(c, top) ==
  [visitedPairs |-> c.visitedPairs \ {top.pair},
   currentDepth |-> IF top.inc THEN c.currentDepth - 1 ELSE c.currentDepth]

\* one invocation of compareValues, up to the call it makes or to its return;
\* the values are non-nil pointers to Node or Node structs
Values(p) ==
  LET me == proc[p]
      c == ctx[Context(p)]
      cfg == ApplyOptions(config, opts, 1)
      limited == cfg.MaxDepth > 0
      inside == [c EXCEPT !.currentDepth = IF limited THEN @ + 1 ELSE @]
      pairKey == <<Pointer(me.l), Pointer(me.r)>>
      named == IF me.l.f[1] # me.r.f[1]
                 THEN Append(me.diffs,
                             StructDiff(FieldPathOf(me.path, "Name"), me.l.f[1],
                                        me.r.f[1], "Name", "UPDATED"))
                 ELSE me.diffs
  IN
  /\ me.pc = "values"
  /\ IF limited /\ c.currentDepth >= cfg.MaxDepth
       THEN /\ proc' = [proc EXCEPT ![p].pc = "return"]
            /\ UNCHANGED ctx
     ELSE IF HasComparator(cfg, TypeOf(me.l))
       THEN LET fn == ComparatorFor(cfg, TypeOf(me.l)).fn IN
            /\ ctx' = [ctx EXCEPT ![Context(p)] = inside]
            /\ proc' = [proc EXCEPT
                          ![p].pc = "return",
                          ![p].err = IF fn = "error" THEN "error" ELSE @,
                          ![p].diffs = IF fn = "unequal"
                                         THEN Append(@, Diff(me.path, me.l, me.r))
                                         ELSE @,
                          ![p].stack = Append(@, Frame(limited, <<>>))]
     ELSE IF me.l.k = "ptr"
       THEN IF pairKey \in c.visitedPairs
              THEN /\ ctx' = [ctx EXCEPT ![Context(p)] = inside]
                   /\ proc' = [proc EXCEPT
                                 ![p].pc = "return",
                                 ![p].stack = Append(@, Frame(limited, <<>>))]
              ELSE /\ ctx' = [ctx EXCEPT ![Context(p)] =
                                [inside EXCEPT !.visitedPairs =
                                                 @ \cup {pairKey}]]
                   /\ proc' = [proc EXCEPT
                                 ![p].l = Elem(heap, me.l),
                                 ![p].r = Elem(heap, me.r),
                                 ![p].stack = Append(@, Frame(limited, pairKey))]
     ELSE /\ ctx' = [ctx EXCEPT ![Context(p)] = inside]
          /\ IF ~DeepEqual(heap, me.l.f[2], me.r.f[2])
               THEN proc' = [proc EXCEPT
                               ![p].l = me.l.f[2], ![p].r = me.r.f[2],
                               ![p].path = FieldPathOf(me.path, "Next"),
                               ![p].diffs = named,
                               ![p].stack = Append(@, Frame(limited, <<>>))]
               ELSE proc' = [proc EXCEPT
                               ![p].pc = "return", ![p].diffs = named,
                               ![p].stack = Append(@, Frame(limited, <<>>))]
  /\ UNCHANGED <<heap, left, right, opts, config, pc, out, tagCheck>>

\* the return from one invocation of compareValues, or from Compare
Unwind(p) ==
  LET me == proc[p]
      c == ctx[Context(p)]
      top == me.stack[Len(me.stack)]
  IN
  /\ me.pc = "return"
  /\ IF me.stack = <<>>
       THEN /\ proc' = [proc EXCEPT ![p].pc = "done"]
            /\ UNCHANGED ctx
       ELSE /\ proc' = [proc EXCEPT
                          ![p].stack = SubSeq(@, 1, Len(@) - 1)]
            /\ ctx' = [ctx EXCEPT ![Context(p)] = Leave(c, top)]
  /\ UNCHANGED <<heap, left, right, opts, config, pc, out, tagCheck>>

\* hasDiffTag(diffTag, tagValue), called on its own
HasDiffTag ==
  /\ pc = "tag"
  /\ tagCheck' = [tagCheck EXCEPT !.called = TRUE,
                                  !.ret = hasDiffTag(tagCheck.diffTag,
                                                     tagCheck.tagValue)]
  /\ pc' = "ready"
  /\ UNCHANGED <<heap, left, right, opts, config, out, proc, ctx>>

(***************************************************************************)
(* Inputs.  An item is a value with the heap objects it refers to, laid    *)
(* out from address b + 1; a scenario pairs a left item at base 0 with a   *)
(* right item at base 2, or with the left item itself.                     *)
(***************************************************************************)
Free == [o |-> "free"]
Item(objs, v) == [objs |-> objs, v |-> v]
Plain(v) == Item(<<Free, Free>>, v)

Names == {"a", "b"}
Ints == 1..MaxInt

ScalarItems ==
  {Plain(IntV("int", n)) : n \in Ints}
  \cup {Plain(v) : v \in {IntV("int32", 1), IntV("uint", 1), FloatV(1), NaN,
                          StrV("a"), StrV("b"), NilV}}
  \cup {Plain(RefV(t, 0)) : t \in {"PtrInt", "PtrString", "PtrNode", "MapAny",
                                    "SliceInt"}}

PtrItems(b) ==
  {Item(<<ValObj(IntV("int", n)), Free>>, RefV("PtrInt", b + 1)) : n \in Ints}

NodeV(name, next) == StructV("Node", <<StrV(name), RefV("PtrNode", next)>>)

\* linked Node structures of one or two nodes, entered through a pointer
NodeItems(b) ==
  {Item(<<ValObj(NodeV(n1, x1)), Free>>, RefV("PtrNode", b + 1)) :
     n1 \in Names, x1 \in {0, b + 1}}
  \cup {Item(<<ValObj(NodeV(n1, b + 2)), ValObj(NodeV(n2, x2))>>,
             RefV("PtrNode", b + 1)) :
          n1 \in Names, n2 \in Names, x2 \in {0, b + 1, b + 2}}
  \cup {Item(<<ValObj(NodeV(n1, b + 2)), ValObj(NodeV(n2, b + 1))>>,
             NodeV(n1, b + 2)) : n1 \in Names, n2 \in Names}

\* map[string]any over keys a and b: a value, nil, or the map itself
MapVals(b) == {IntV("int", 1), IntV("int", 2), NilV, RefV("MapAny", b + 1)}

MapItems(b) ==
  {Item(<<MapObj(<<>>), Free>>, RefV("MapAny", b + 1))}
  \cup {Item(<<MapObj(<<Entry(k, v)>>), Free>>, RefV("MapAny", b + 1)) :
          k \in Names, v \in MapVals(b)}
  \cup {Item(<<MapObj(<<Entry("a", v), Entry("b", w)>>), Free>>,
             RefV("MapAny", b + 1)) :
          v \in MapVals(b), w \in {IntV("int", 1), NilV}}
  \cup {Item(<<MapObj(<<Entry("a", IntV("int", n))>>), Free>>,
             RefV("MapInt", b + 1)) : n \in Ints}

\* []int and []any; an element of []any may be the slice itself
SliceItems(b) ==
  {Item(<<SeqObj(e), Free>>, RefV("SliceInt", b + 1)) :
     e \in {<<>>, <<IntV("int", 1)>>, <<IntV("int", 2)>>,
            <<IntV("int", 1), IntV("int", 2)>>,
            <<IntV("int", 2), IntV("int", 1)>>}}
  \cup {Item(<<SeqObj(e), Free>>, RefV("SliceAny", b + 1)) :
          e \in {<<NilV>>, <<IntV("int", 1)>>, <<NaN>>,
                 <<RefV("SliceAny", b + 1)>>,
                 <<IntV("int", 1), StrV("a")>>, <<StrV("a"), IntV("int", 1)>>}}

\* struct { F float64; I any; S []any }
StructItems(b) ==
  {Item(<<SeqObj(<<e>>), FuncObj>>,
        StructV("WrapAny", <<f, i, RefV("SliceAny", b + 1)>>)) :
     f \in {FloatV(1), NaN}, i \in {NilV, IntV("int", 1), StrV("a")},
     e \in {IntV("int", 1), NilV, RefV("Func", b + 2)}}

\* func values, and struct { Fn func() }
FuncItems(b) ==
  {Item(<<FuncObj, Free>>, v) :
     v \in {RefV("Func", b + 1), StructV("WrapFn", <<RefV("Func", b + 1)>>),
            StructV("WrapFn", <<RefV("Func", 0)>>)}}

Items(b) ==
  ScalarItems \cup FuncItems(b) \cup PtrItems(b) \cup NodeItems(b) \cup MapItems(b)
  \cup SliceItems(b) \cup StructItems(b)

Scenario(l, r) == [heap |-> l.objs \o r.objs, left |-> l.v, right |-> r.v]
Reflexive(l) == [heap |-> l.objs \o <<Free, Free>>, left |-> l.v, right |-> l.v]

OptionLists ==
  {<<>>, <<WithIgnoreSliceOrder>>, <<WithCompareNumericValues>>,
   <<WithMaxDepth(1)>>, <<WithIgnoreFields(<<"">>)>>}

\* no call of hasDiffTag on its own is under way
NoTagCheck == [diffTag |-> <<>>, tagValue |-> "", called |-> FALSE,
               ret |-> FALSE]

\* the state before the call: the arguments are in place
Start(sc, optionLists, configs) ==
  /\ heap = sc.heap
  /\ left = sc.left
  /\ right = sc.right
  /\ opts \in optionLists
  /\ config \in configs
  /\ pc = "ready"
  /\ out = NoResult
  /\ tagCheck = NoTagCheck
  /\ proc = <<>>
  /\ ctx = <<>>

Init ==
  \E l \in Items(0) :
    \/ \E r \in Items(2) :
         Start(Scenario(l, r), OptionLists, {DefaultCompareConfig})
    \/ Start(Reflexive(l), OptionLists, {DefaultCompareConfig})

Next == Compare

Spec == Init /\ [][Next]_vars

(***************************************************************************)
(* Properties of Compare over the general inputs (Spec).                   *)
(***************************************************************************)
Done == pc = "done"
Returned == out.err = "nil" /\ ~out.result.nil
ZeroDiffs == Returned /\ out.result.Diffs = <<>>

RECURSIVE HoldsNaN(_)
\* a NaN stored inline in v (v itself, a struct field, an array element)
HoldsNaN(v) ==
  CASE v.k = "float64" -> v.nan
    [] v.k = "struct" -> \E i \in DOMAIN v.f : HoldsNaN(v.f[i])
    [] v.k = "array" -> \E i \in DOMAIN v.e : HoldsNaN(v.e[i])
    [] OTHER -> FALSE

RECURSIVE HoldsFunc(_)
\* a non-nil func stored inline in v
HoldsFunc(v) ==
  CASE v.k = "func" -> ~IsNil(v)
    [] v.k = "struct" -> \E i \in DOMAIN v.f : HoldsFunc(v.f[i])
    [] v.k = "array" -> \E i \in DOMAIN v.e : HoldsFunc(v.e[i])
    [] OTHER -> FALSE

ObjValues(o) ==
  CASE o.o = "val" -> {o.v}
    [] o.o = "seq" -> {o.e[i] : i \in DOMAIN o.e}
    [] o.o = "map" -> {o.m[i].val : i \in DOMAIN o.m}
    [] OTHER -> {}

\* every value of the scenario: the two roots and whatever the heap holds
AllValues == {left, right} \cup UNION {ObjValues(heap[a]) : a \in DOMAIN heap}

NaNFree == \A v \in AllValues : ~HoldsNaN(v)
FuncFree == \A v \in AllValues : ~HoldsFunc(v)

\* C1: Compare terminates on every pair of inputs, cyclic ones included,
\* whichever reference kind closes the cycle: the recursion never exhausts
\* the stack.
C1_Terminates == Done => out.err # "overflow"

SameTypeScalars ==
  /\ IsValid(left) /\ IsValid(right)
  /\ TypeOf(left) = TypeOf(right)
  /\ isBasicKind(left.k)

\* C4: under the default configuration deep-equal inputs give a non-nil
\* result with zero diffs, and two unequal scalars of one type give exactly
\* one diff.
C4_DeepEqualZeroDiffs ==
  (Done /\ opts = <<>>) =>
    /\ DeepEqual(heap, left, right) => ZeroDiffs
    /\ (SameTypeScalars /\ ~GoEq(left, right)) =>
         (Returned /\ Len(out.result.Diffs) = 1)

TypesDiffer ==
  /\ IsValid(left) /\ IsValid(right)
  /\ TypeOf(left) # TypeOf(right)

NumericDisabled == \A i \in DOMAIN opts : opts[i] # WithCompareNumericValues
RootIgnored == \E i \in DOMAIN opts : opts[i] = WithIgnoreFields(<<"">>)

OneValueDiff ==
  /\ Returned
  /\ out.result.Diffs = <<Diff("", left, right)>>

\* C5 as stated: with numeric coercion disabled, two values of differing
\* runtime types give exactly one base diff carrying both values.
C5_TypeMismatchOneDiff ==
  (Done /\ TypesDiffer /\ NumericDisabled /\ ~RootIgnored) => OneValueDiff

BothNilPointers ==
  left.k = "ptr" /\ right.k = "ptr" /\ IsNil(left) /\ IsNil(right)

\* C5: with numeric coercion disabled and the path not ignored, two values
\* of differing runtime types give exactly one base diff carrying both
\* values, except two nil pointers, which give none.
C5_TypeMismatchExceptNilPointers ==
  (Done /\ TypesDiffer /\ NumericDisabled /\ ~RootIgnored) =>
    IF BothNilPointers THEN ZeroDiffs ELSE OneValueDiff

\* a pointer into a ring against a map: one diff, nothing below it
C5_Witness ==
  /\ Done /\ TypesDiffer /\ NumericDisabled /\ OneValueDiff
  /\ left.k = "ptr" /\ ~IsNil(left) /\ right.k = "map" /\ ~IsNil(right)

\* C7: with no failing comparator or handler, a Compare that comes to an end
\* returns a nil error and a non-nil result; it never aborts.
C7_NeverAborts == (Done /\ ~out.raised /\ out.err # "overflow") => Returned

(***************************************************************************)
(* Cyclic pointer structures of identical shape (SpecRing): n nodes on     *)
(* each side, node i pointing to node i + 1 and the last node back to node *)
(* j; the right names equal the left ones, or differ at one node.          *)
(***************************************************************************)
OtherName(name) == CHOOSE o \in Names : o # name

RingNodes(b, n, j, names) ==
  [i \in 1..n |-> ValObj(NodeV(names[i], b + (IF i = n THEN j ELSE i + 1)))]

RingScenario(n, j, ln, rn) ==
  [heap |-> RingNodes(0, n, j, ln) \o RingNodes(n, n, j, rn),
   left |-> RefV("PtrNode", 1), right |-> RefV("PtrNode", n + 1)]

InitRing ==
  \E n \in 1..MaxRing :
    \E j \in 1..n, ln \in [1..n -> Names], rn \in [1..n -> Names] :
      /\ Cardinality({i \in 1..n : ln[i] # rn[i]}) <= 1
      /\ Start(RingScenario(n, j, ln, rn), {<<>>}, {DefaultCompareConfig})

SpecRing == InitRing /\ [][Next]_vars

RingSize == Len(heap) \div 2
NameAt(a) == heap[a].v.f[1]
Differing == {i \in 1..RingSize : NameAt(i) # NameAt(RingSize + i)}

RECURSIVE NamePath(_)
\* the path of the Name of the k-th node from the root
NamePath(k) == IF k = 1 THEN "Name" ELSE "Next." \o NamePath(k - 1)

\* C2: two cyclic pointer structures of one shape give zero diffs when all
\* names are equal, and when one name differs exactly one diff, at the path
\* of that name, wherever the node sits.
C2_CyclicStructures ==
  Done =>
    /\ Returned
    /\ Differing = {} => out.result.Diffs = <<>>
    /\ \A k \in Differing :
         out.result.Diffs =
           <<StructDiff(NamePath(k), NameAt(k), NameAt(RingSize + k), "Name",
                        "UPDATED")>>

\* a ring of three whose third node differs
C2_Witness ==
  /\ Done /\ RingSize = 3 /\ Differing = {3}
  /\ left.a = 1 /\ heap[3].v.f[2].a = 1
  /\ Len(out.result.Diffs) = 1
  /\ out.result.Diffs[1].path = "Next.Next.Name"

(***************************************************************************)
(* A struct with an ignore-tagged field, nested in every container         *)
(* (SpecNested): struct { A string; B int `diff:"ignore"` } by value, as a *)
(* struct field, an array or slice element, a map value, behind a pointer. *)
(***************************************************************************)
TaggedV(a, n) == StructV("Tagged", <<StrV(a), IntV("int", n)>>)

Nestings(b, t) ==
  {Plain(t),
   Plain(StructV("Wrap", <<t>>)),
   Plain(ArrayV("ArrTagged", <<t>>)),
   Plain(StructV("WrapArr", <<ArrayV("ArrTagged", <<t>>)>>)),
   Item(<<SeqObj(<<t>>), Free>>, RefV("SliceTagged", b + 1)),
   Item(<<MapObj(<<Entry("a", t)>>), Free>>, RefV("MapTagged", b + 1)),
   Item(<<ValObj(t), Free>>, RefV("PtrTagged", b + 1))}
  \cup {Item(<<ValObj(t), Free>>,
             StructV("Pair", <<IntV("int", n), RefV("PtrTagged", b + 1)>>)) :
          n \in Ints}

NestedItems(b) ==
  UNION {Nestings(b, TaggedV(a, n)) : a \in Names, n \in Ints}

NestedOptionLists ==
  {<<>>, <<WithIgnoreSliceOrder>>}
  \cup {<<WithCustomComparators({Comparator("Tagged", fn)})>> :
          fn \in {"equal", "unequal", "error"}}
  \cup {<<WithTypeHandlers(<<UserHandler("Tagged", fn)>>)>> :
          fn \in {"unequal", "error"}}
  \cup {<<WithIgnoreSliceOrder,
          WithCustomComparators({Comparator("Tagged", "error")})>>}

InitNested ==
  \E l \in NestedItems(0), r \in NestedItems(2) :
    /\ TypeOf(l.v) = TypeOf(r.v)
    /\ Start(Scenario(l, r), NestedOptionLists, {DefaultCompareConfig})

SpecNested == InitNested /\ [][Next]_vars

\* C6: an error returned by a comparator or a handler, at whatever depth,
\* is the error Compare returns, with a nil result and none of the diffs
\* collected before it.
C6_ErrorPropagates ==
  (Done /\ out.raised) =>
    /\ out.err = "error"
    /\ out.result.nil
    /\ out.result.Diffs = <<>>

\* the error raised behind a pointer field, after a diff was collected
C6_Witness ==
  /\ Done /\ out.raised /\ out.err = "error" /\ out.result.nil
  /\ left.t = "Pair" /\ out.collected = 1

\* the struct with the ignore-tagged field that a nesting holds
TaggedIn(v) ==
  CASE v.t = "Tagged" -> v
    [] v.t = "Wrap" -> v.f[1]
    [] v.t = "ArrTagged" -> v.e[1]
    [] v.t = "WrapArr" -> v.f[1].e[1]
    [] v.t = "SliceTagged" -> heap[v.a].e[1]
    [] v.t = "MapTagged" -> heap[v.a].m[1].val
    [] v.t = "PtrTagged" -> heap[v.a].v
    [] v.t = "Pair" -> heap[v.f[2].a].v

DifferOnlyInIgnored ==
  /\ TypeOf(left) = TypeOf(right)
  /\ TaggedIn(left).f[1] = TaggedIn(right).f[1]
  /\ TaggedIn(left).f[2] # TaggedIn(right).f[2]
  /\ left.t = "Pair" => left.f[1] = right.f[1]

NoComparators ==
  \A i \in DOMAIN opts :
    opts[i].opt \notin {"WithCustomComparators", "WithTypeHandlers"}

\* C10: two values that differ only in an ignore-tagged field give zero
\* diffs, wherever the struct is nested.
C10_IgnoredFieldSilent ==
  (Done /\ NoComparators /\ DifferOnlyInIgnored) => ZeroDiffs

(***************************************************************************)
(* Order-insensitive comparison of two []int (SpecSlice): the left slice   *)
(* holds each value up to MaxCount times in ascending order, the right one *)
(* likewise, in ascending or in descending order.                          *)
(***************************************************************************)
RECURSIVE Ascending(_, _)
\* the ascending sequence holding value i counts[i] times, from value v on
Ascending(counts, v) ==
  IF v > MaxInt THEN <<>>
  ELSE Repeat(IntV("int", v), counts[v]) \o Ascending(counts, v + 1)

Reverse(seq) == [i \in 1..Len(seq) |-> seq[Len(seq) + 1 - i]]

IntSlice(b, e) == Item(<<SeqObj(e), Free>>, RefV("SliceInt", b + 1))

CountVectors == [1..MaxInt -> 0..MaxCount]

InitSlice ==
  \E lc \in CountVectors, rc \in CountVectors, descending \in BOOLEAN :
    LET r == IF descending THEN Reverse(Ascending(rc, 1))
             ELSE Ascending(rc, 1)
    IN Start(Scenario(IntSlice(0, Ascending(lc, 1)), IntSlice(2, r)),
             {<<WithIgnoreSliceOrder>>}, {DefaultCompareConfig})

SpecSlice == InitSlice /\ [][Next]_vars

LeftElems == SeqOf(heap, left)
RightElems == SeqOf(heap, right)
Occurrences(seq, v) == Cardinality({i \in 1..Len(seq) : seq[i] = v})
Monus(a, b) == IF a > b THEN a - b ELSE 0

\* C8: order-insensitive comparison yields, for every value v,
\* max(0, countLeft(v) - countRight(v)) Removed diffs carrying v and
\* max(0, countRight(v) - countLeft(v)) Added diffs carrying v, nothing
\* else, and none of them carries an index.
C8_MultisetReconciliation ==
  Done =>
    /\ Returned
    /\ \A v \in {IntV("int", n) : n \in Ints} :
         /\ Occurrences(out.result.Diffs, Diff("", v, NilV))
              = Monus(Occurrences(LeftElems, v), Occurrences(RightElems, v))
         /\ Occurrences(out.result.Diffs, Diff("", NilV, v))
              = Monus(Occurrences(RightElems, v), Occurrences(LeftElems, v))
    /\ \A i \in DOMAIN out.result.Diffs :
         /\ out.result.Diffs[i].d = "Diff"
         /\ \E n \in Ints :
              out.result.Diffs[i] \in {Diff("", IntV("int", n), NilV),
                                       Diff("", NilV, IntV("int", n))}

\* six elements against four in descending order: the count maps are used
C8_Witness ==
  /\ Done /\ Returned
  /\ Len(LeftElems) > SmallSlice /\ Len(RightElems) = 4
  /\ RightElems[1] = IntV("int", 2)
  /\ Len(out.result.Diffs) = 2

(***************************************************************************)
(* Identity matching (SpecID), the revision of the engine that has it:     *)
(* struct { ID int `diff:"id"`; Name string; Age int } by value, and as    *)
(* the field Sub of struct { Key int; Name string; Sub IDStruct }; the     *)
(* config may name Key as an identity field.                               *)
(***************************************************************************)
IDStructV(id, name, age) ==
  StructV("IDStruct", <<IntV("int", id), StrV(name), IntV("int", age)>>)

IDValues == {IDStructV(id, name, age) : id \in 0..MaxInt, name \in Names,
                                        age \in Ints}

IDItems ==
  {Plain(v) : v \in IDValues}
  \cup {Plain(StructV("Item", <<IntV("int", key), StrV(name), sub>>)) :
          key \in Ints, name \in Names, sub \in IDValues}

IDConfigs ==
  {[DefaultCompareConfig EXCEPT !.IDFieldNames = names] :
     names \in {<<>>, <<"Key">>}}

InitID ==
  \E l \in IDItems, r \in IDItems :
    /\ TypeOf(l.v) = TypeOf(r.v)
    /\ Start(Scenario(l, r), {<<>>}, IDConfigs)

NextID == CompareWithConfig

SpecID == InitID /\ [][NextID]_vars

\* the identity a struct carries under the configuration: the field tagged
\* id, else a field named in IDFieldNames; 0 when it carries none
IdentityOf(v) ==
  CASE v.t = "IDStruct" -> v.f[1].n
    [] v.t = "Item" /\ Contains(config.IDFieldNames, "Key") -> v.f[1].n
    [] OTHER -> 0

IdentitiesDiffer(l, r) ==
  IdentityOf(l) # 0 /\ IdentityOf(r) # 0 /\ IdentityOf(l) # IdentityOf(r)

IdentitiesEqual(l, r) == IdentityOf(l) # 0 /\ IdentityOf(l) = IdentityOf(r)

Mismatch(path, l, r) == <<StructDiff(path, l, r, "", "ID_MISMATCH")>>

FieldPath(path, name) == IF path = "" THEN name ELSE path \o "." \o name

RECURSIVE FieldDiffs(_, _, _, _)
\* the field-level diffs of two structs of one type, from field i on; a
\* struct-typed field is itself subject to the identity rule
FieldDiffs(path, l, r, i) ==
  LET fields == Types[l.t].fields IN
  IF i > Len(fields) THEN <<>>
  ELSE
    LET p == FieldPath(path, fields[i].name)
        here ==
          IF l.f[i] = r.f[i] THEN <<>>
          ELSE IF l.f[i].k # "struct"
            THEN <<StructDiff(p, l.f[i], r.f[i], fields[i].name, "UPDATED")>>
          ELSE IF IdentitiesDiffer(l.f[i], r.f[i])
            THEN Mismatch(p, l.f[i], r.f[i])
          ELSE FieldDiffs(p, l.f[i], r.f[i], 1)
    IN here \o FieldDiffs(path, l, r, i + 1)

\* C9: two structs with non-zero, differing identities give exactly one
\* StructDiff ID_MISMATCH at the struct's own path and nothing for any other
\* field; with equal identities the other fields are compared as usual and
\* give field-level diffs.
C9_IdentityShortCircuit ==
  Done =>
    /\ Returned
    /\ IdentitiesDiffer(left, right) =>
         out.result.Diffs = Mismatch("", left, right)
    /\ IdentitiesEqual(left, right) =>
         out.result.Diffs = FieldDiffs("", left, right, 1)
    /\ (left.t = "Item" /\ ~IdentitiesDiffer(left, right)) =>
         out.result.Diffs = FieldDiffs("", left, right, 1)

\* the names differ and so do the identities of the nested structs, whose
\* ages differ as well: one field diff and one mismatch at Sub
C9_Witness ==
  /\ Done /\ left.t = "Item" /\ ~IdentitiesDiffer(left, right)
  /\ left.f[2] # right.f[2]
  /\ IdentitiesDiffer(left.f[3], right.f[3])
  /\ left.f[3].f[3] # right.f[3].f[3]
  /\ Len(out.result.Diffs) = 2
  /\ out.result.Diffs[2] = StructDiff("Sub", left.f[3], right.f[3], "",
                                      "ID_MISMATCH")

(***************************************************************************)
(* The ignore list (SpecIgnore): struct { Left MyStruct; Right             *)
(* AnotherStruct }, both nested structs with a field Meta, compared under  *)
(* WithIgnoreFields with up to two entries.                                *)
(***************************************************************************)
NestedStructV(v, m, n, k) ==
  StructV("NestedStruct", <<StructV("MyStruct", <<StrV(v), StrV(m)>>),
                            StructV("AnotherStruct", <<StrV(n), StrV(k)>>)>>)

NestedStructItems ==
  {Plain(NestedStructV(v, m, n, k)) :
     v \in Names, m \in Names, n \in Names, k \in Names}

IgnoreEntries ==
  {"Meta", "Left.Meta", "Right.Meta", "MyStruct.Meta", "AnotherStruct.Meta",
   "Left", "NestedStruct.Right", "Value", "Left.Value", "Meta.Left"}

IgnoreOptionLists ==
  {<<>>}
  \cup {<<WithIgnoreFields(<<e>>)>> : e \in IgnoreEntries}
  \cup {<<WithIgnoreFields(<<e, f>>)>> : e \in IgnoreEntries,
                                          f \in IgnoreEntries}

InitIgnore ==
  \E l \in NestedStructItems, r \in NestedStructItems :
    Start(Scenario(l, r), IgnoreOptionLists, {DefaultCompareConfig})

SpecIgnore == InitIgnore /\ [][Next]_vars

\* the entries of the ignore list of the call: the list of the option, or
\* the list the caller's config holds
IgnoreList ==
  IF opts = <<>> THEN SeqToSet(config.IgnoreFields)
  ELSE {opts[1].fields[i] : i \in DOMAIN opts[1].fields}

\* the list names the field: by its full dotted path, by its bare name, or
\* by TypeName.fieldName of the struct type declaring it
Listed(path, name, typ) ==
  \/ path \in IgnoreList
  \/ name \in IgnoreList
  \/ (Types[typ].name \o "." \o name) \in IgnoreList

RECURSIVE UnlistedDiffs(_, _, _, _)
\* the diffs of the differing scalar fields that the list does not name,
\* from field i on, in field order
UnlistedDiffs(path, l, r, i) ==
  LET fields == Types[l.t].fields IN
  IF i > Len(fields) THEN <<>>
  ELSE
    LET p == FieldPath(path, fields[i].name)
        here ==
          IF Listed(p, fields[i].name, l.t) \/ l.f[i] = r.f[i] THEN <<>>
          ELSE IF l.f[i].k = "struct" THEN UnlistedDiffs(p, l.f[i], r.f[i], 1)
          ELSE <<StructDiff(p, l.f[i], r.f[i], fields[i].name, "UPDATED")>>
    IN here \o UnlistedDiffs(path, l, r, i + 1)

\* C11: a struct field is skipped by the ignore list exactly when the list
\* holds its full dotted path, its bare name, or TypeName.fieldName of the
\* declaring struct type: the diffs are those of the differing fields that
\* the list does not name.
C11_IgnoreList ==
  Done => (Returned /\ out.result.Diffs = UnlistedDiffs("", left, right, 1))

\* MyStruct.Meta alone is listed and both Meta fields differ: Left.Meta is
\* silent, Right.Meta is reported
C11_Witness ==
  /\ Done /\ IgnoreList = {"MyStruct.Meta"}
  /\ left.f[1].f[2] # right.f[1].f[2]
  /\ left.f[2].f[2] # right.f[2].f[2]
  /\ \E i \in DOMAIN out.result.Diffs : out.result.Diffs[i].path = "Right.Meta"
  /\ \A i \in DOMAIN out.result.Diffs : out.result.Diffs[i].path # "Left.Meta"


(***************************************************************************)
(* Maps from string to int: Compare on map[string]int values.              *)
(***************************************************************************)
KeyNames == <<"a", "b", "c">>

\* 0 stands for "key absent"
KeyVectors == [DOMAIN KeyNames -> 0..MaxInt]

RECURSIVE EntriesFrom(_, _)
EntriesFrom(kv, i) ==
  IF i > Len(KeyNames) THEN <<>>
  ELSE (IF kv[i] = 0 THEN <<>> ELSE <<Entry(KeyNames[i], IntV("int", kv[i]))>>)
       \o EntriesFrom(kv, i + 1)

IntMap(b, kv) == Item(<<MapObj(EntriesFrom(kv, 1)), Free>>, RefV("MapInt", b + 1))

MapOptionLists ==
  {<<>>, <<WithIgnoreSliceOrder>>, <<WithCompareNumericValues>>,
   <<WithMaxDepth(1)>>}

InitMap ==
  \E lk \in KeyVectors, rk \in KeyVectors :
    Start(Scenario(IntMap(0, lk), IntMap(2, rk)), MapOptionLists,
          {DefaultCompareConfig})

SpecMap == InitMap /\ [][Next]_vars

LeftEntries == EntriesOf(heap, left)
RightEntries == EntriesOf(heap, right)
KeySet == {KeyNames[i] : i \in DOMAIN KeyNames}
DiffSet == {out.result.Diffs[i] : i \in DOMAIN out.result.Diffs}

EntryDiffs ==
  {MapDiff("[" \o k \o "]", MapIndex(LeftEntries, k), NilV, k, "REMOVED") :
     k \in {x \in KeySet : HasKey(LeftEntries, x) /\ ~HasKey(RightEntries, x)}}
  \cup
  {MapDiff("[" \o k \o "]", NilV, MapIndex(RightEntries, k), k, "ADDED") :
     k \in {x \in KeySet : ~HasKey(LeftEntries, x) /\ HasKey(RightEntries, x)}}
  \cup
  {MapDiff("[" \o k \o "]", MapIndex(LeftEntries, k), MapIndex(RightEntries, k),
           k, "UPDATED") :
     k \in {x \in KeySet : /\ HasKey(LeftEntries, x) /\ HasKey(RightEntries, x)
                           /\ MapIndex(LeftEntries, x) # MapIndex(RightEntries, x)}}

\* C12: comparing two maps with int values yields exactly one Removed entry
\* diff with the left value per key only on the left, one Added entry diff
\* with the right value per key only on the right, one Updated entry diff per
\* common key with unequal values, and nothing for common keys with equal
\* values.
C12_MapEntryDiffs ==
  Done =>
    /\ Returned
    /\ DiffSet = EntryDiffs
    /\ Len(out.result.Diffs) = Cardinality(EntryDiffs)

\* a removed key, an added key, an updated key
C12_Witness ==
  /\ Done /\ Returned
  /\ \E i, j, k \in DOMAIN out.result.Diffs :
       /\ out.result.Diffs[i].changeType = "REMOVED"
       /\ out.result.Diffs[j].changeType = "ADDED"
       /\ out.result.Diffs[k].changeType = "UPDATED"


(***************************************************************************)
(* Order-sensitive comparison of []int values.                             *)
(***************************************************************************)
MaxLen == 3

IntSeqs == UNION {[1..n -> {IntV("int", v) : v \in Ints}] : n \in 0..MaxLen}

SeqOptionLists == {<<>>, <<WithCompareNumericValues>>, <<WithMaxDepth(1)>>}

InitSeq ==
  \E l \in IntSeqs, r \in IntSeqs :
    Start(Scenario(IntSlice(0, l), IntSlice(2, r)), SeqOptionLists,
          {DefaultCompareConfig})

SpecSeq == InitSeq /\ [][Next]_vars

Longer(a, b) == IF a > b THEN a ELSE b
Shorter(a, b) == IF a < b THEN a ELSE b

\* the element diffs for positions i, i+1, ... (zero-based), in that order
RECURSIVE ElementDiffs(_)
ElementDiffs(i) ==
  IF i >= Longer(Len(LeftElems), Len(RightElems)) THEN <<>>
  ELSE (IF i >= Len(RightElems)
          THEN <<SliceDiff("", LeftElems[i + 1], NilV, i, "REMOVED")>>
        ELSE IF i >= Len(LeftElems)
          THEN <<SliceDiff("", NilV, RightElems[i + 1], i, "ADDED")>>
        ELSE IF LeftElems[i + 1] # RightElems[i + 1]
          THEN <<SliceDiff("", LeftElems[i + 1], RightElems[i + 1], i,
                           "UPDATED")>>
        ELSE <<>>)
       \o ElementDiffs(i + 1)

DifferingPositions ==
  {i \in 1..Shorter(Len(LeftElems), Len(RightElems)) :
     LeftElems[i] # RightElems[i]}

\* C13: order-sensitive comparison of two int sequences yields, in increasing
\* index order, one Updated element diff with index i per common position i
\* whose elements differ, one Removed element diff per position only on the
\* left and one Added element diff per position only on the right; their
\* number is the number of differing common positions plus the absolute
\* length difference.
C13_PositionalDiffs ==
  Done =>
    /\ Returned
    /\ out.result.Diffs = ElementDiffs(0)
    /\ Len(out.result.Diffs)
         = Cardinality(DifferingPositions)
           + Longer(Len(LeftElems), Len(RightElems))
           - Shorter(Len(LeftElems), Len(RightElems))

\* an updated position followed by a removed one
C13_Witness ==
  /\ Done /\ Returned
  /\ Len(out.result.Diffs) >= 2
  /\ out.result.Diffs[1].changeType = "UPDATED"
  /\ out.result.Diffs[Len(out.result.Diffs)].changeType = "REMOVED"
  /\ out.result.Diffs[1].index < out.result.Diffs[Len(out.result.Diffs)].index


(***************************************************************************)
(* The shape of the returned records.  A side is absent when the record's  *)
(* Left or Right is the nil interface value.                                *)
(***************************************************************************)
Present(v) == v # NilV

WellFormed(d) ==
  ("changeType" \in DOMAIN d) =>
    /\ d.changeType = "ADDED" => ~Present(d.left) /\ Present(d.right)
    /\ d.changeType = "REMOVED" => Present(d.left) /\ ~Present(d.right)
    /\ d.changeType = "UPDATED" => Present(d.left) /\ Present(d.right)

\* C14: in every returned result, an Added record has left absent and right
\* present, a Removed record has left present and right absent, and an
\* Updated record has both sides present.
C14_RecordInvariant ==
  (Done /\ Returned) =>
    \A i \in DOMAIN out.result.Diffs : WellFormed(out.result.Diffs[i])


(***************************************************************************)
(* Repeated runs.  The order in which a Go map is ranged over is not       *)
(* fixed; a run is determined by its inputs and by that order.             *)
(***************************************************************************)
AnyRun(seed) == CompareOp(heap, left, right, opts, seed)

\* C15: two runs of Compare on the same inputs with the same options return
\* the same records in the same order.
C15_Deterministic ==
  Done => \A seed \in 0..MaxSeed : AnyRun(seed).result = out.result


(***************************************************************************)
(* Integers of different types, at the root and as values of a             *)
(* map[string]any.                                                         *)
(***************************************************************************)
SignedTypes == {"int", "int8", "int32", "int64"}
UnsignedTypes == {"uint", "uint8", "uint64"}

IntegerValues ==
  {IntV(t, n) : t \in SignedTypes, n \in (0 - MaxInt)..MaxInt}
  \cup {IntV(t, n) : t \in UnsignedTypes, n \in 0..MaxInt}

NumItem(b, v, inMap) ==
  IF inMap
    THEN Item(<<MapObj(<<Entry("a", v)>>), Free>>, RefV("MapAny", b + 1))
    ELSE Plain(v)

NumOptionLists == {<<>>, <<WithCompareNumericValues>>}

InitNum ==
  \E l \in IntegerValues, r \in IntegerValues, inMap \in BOOLEAN :
    /\ l.t # r.t
    /\ Start(Scenario(NumItem(0, l, inMap), NumItem(2, r, inMap)),
             NumOptionLists, {DefaultCompareConfig})

SpecNum == InitNum /\ [][Next]_vars

NumOf(x) == IF x.k = "map" THEN MapIndex(EntriesOf(heap, x), "a") ELSE x
NumericEnabled == opts = <<WithCompareNumericValues>>
Swapped == CompareOp(heap, right, left, opts, 0)

\* C16: with cross-width numeric comparison enabled, two integers of
\* different types produce no diff exactly when they are the same
\* mathematical integer (a negative signed value equals no unsigned value),
\* and one diff otherwise; the verdict is the same with left and right
\* swapped; with the option disabled every such pair yields exactly one diff.
C16_CrossWidthIntegers ==
  Done =>
    /\ Returned
    /\ Swapped.err = "nil"
    /\ Len(Swapped.result.Diffs) = Len(out.result.Diffs)
    /\ IF NumericEnabled /\ NumOf(left).n = NumOf(right).n
         THEN ZeroDiffs
         ELSE Len(out.result.Diffs) = 1

\* a negative int against an unsigned value, and equal values of a signed
\* and an unsigned type, with the option enabled
C16_Witness ==
  /\ Done /\ Returned /\ NumericEnabled /\ ZeroDiffs
  /\ isSignedIntKind(NumOf(left).k) /\ isUnsignedIntKind(NumOf(right).k)
  /\ NumOf(left).n = MaxInt

C16_WitnessNegative ==
  /\ Done /\ Returned /\ NumericEnabled /\ ~ZeroDiffs
  /\ NumOf(left).n < 0 /\ isUnsignedIntKind(NumOf(right).k)


(***************************************************************************)
(* The depth limit (SpecDepth): the cyclic structures and the nested       *)
(* structs again, under WithMaxDepth(d), alone or followed by a comparator *)
(* or a handler for the nested struct type.                                *)
(***************************************************************************)
MaxLimit == 3

DepthOptionLists ==
  UNION {{<<WithMaxDepth(d)>>}
         \cup {<<WithMaxDepth(d),
                 WithCustomComparators({Comparator("Tagged", fn)})>> :
                 fn \in {"unequal", "error"}}
         \cup {<<WithMaxDepth(d),
                 WithTypeHandlers(<<UserHandler("Tagged", "unequal")>>)>>} :
         d \in 0..MaxLimit}

InitDepth ==
  \/ \E n \in 1..MaxRing :
       \E j \in 1..n, ln \in [1..n -> Names], rn \in [1..n -> Names] :
         /\ Cardinality({i \in 1..n : ln[i] # rn[i]}) <= 1
         /\ Start(RingScenario(n, j, ln, rn), DepthOptionLists,
                  {DefaultCompareConfig})
  \/ \E l \in NestedItems(0), r \in NestedItems(2) :
       /\ TypeOf(l.v) = TypeOf(r.v)
       /\ Start(Scenario(l, r), DepthOptionLists, {DefaultCompareConfig})

SpecDepth == InitDepth /\ [][Next]_vars

Limit == opts[1].depth
IsRing == left.k = "ptr" /\ left.t = "PtrNode"

\* the k-th node of a ring is compared by the invocation 2k - 1 levels
\* below the root: one level per pointer, one per struct
NodeLevel(k) == 2 * k - 1

\* C17: under maxDepth = d > 0 every invocation of the dispatcher d or more
\* levels below the root returns at once: it emits no diff, invokes no
\* comparator or handler and raises no error, so a difference located only
\* that deep yields zero diffs; under maxDepth = 0 no invocation is cut
\* short.
C17_DepthLimit ==
  Done =>
    /\ Limit > 0 =>
         \A c \in out.calls :
           c.level >= Limit =>
             /\ c.truncated
             /\ c.emitted = 0 /\ c.invoked = 0 /\ c.err = "nil"
    /\ Limit = 0 => \A c \in out.calls : ~c.truncated
    /\ (IsRing /\ Limit > 0) =>
         \A k \in Differing : NodeLevel(k) >= Limit => ZeroDiffs
    /\ (IsRing /\ Limit = 0) =>
         \A k \in Differing : Len(out.result.Diffs) = 1

\* a ring whose second node differs, cut at depth 2
C17_Witness ==
  /\ Done /\ IsRing /\ Limit = 2 /\ Differing = {2} /\ ZeroDiffs
  /\ \E c \in out.calls : c.level = 2 /\ c.truncated


(***************************************************************************)
(* The ignoreOrder tag (SpecTag): struct { ID int; Items []int             *)
(* `diff:"ignoreOrder"`; Numbers []int }.                                  *)
(***************************************************************************)
ShortSeqs == UNION {[1..n -> {IntV("int", v) : v \in Ints}] : n \in 0..2}

TestStructItem(b, items, numbers) ==
  Item(<<SeqObj(items), SeqObj(numbers)>>,
       StructV("TestStruct", <<IntV("int", 1), RefV("SliceInt", b + 1),
                               RefV("SliceInt", b + 2)>>))

TagOptionLists == {<<>>, <<WithCompareNumericValues>>}

InitTag ==
  \E li \in ShortSeqs, ln \in ShortSeqs, ri \in ShortSeqs, rn \in ShortSeqs :
    Start(Scenario(TestStructItem(0, li, ln), TestStructItem(2, ri, rn)),
          TagOptionLists, {DefaultCompareConfig})

SpecTag == InitTag /\ [][Next]_vars

ItemsOf(v) == SeqOf(heap, v.f[2])
NumbersOf(v) == SeqOf(heap, v.f[3])

\* the order-sensitive element diffs of ls against rs from position i on
RECURSIVE PositionDiffs(_, _, _, _)
PositionDiffs(path, ls, rs, i) ==
  IF i >= Longer(Len(ls), Len(rs)) THEN <<>>
  ELSE (IF i >= Len(rs)
          THEN <<SliceDiff(path, ls[i + 1], NilV, i, "REMOVED")>>
        ELSE IF i >= Len(ls)
          THEN <<SliceDiff(path, NilV, rs[i + 1], i, "ADDED")>>
        ELSE IF ls[i + 1] # rs[i + 1]
          THEN <<SliceDiff(path, ls[i + 1], rs[i + 1], i, "UPDATED")>>
        ELSE <<>>)
       \o PositionDiffs(path, ls, rs, i + 1)

RECURSIVE Select(_, _)
\* the records of diffs at the given path, in order
Select(diffs, path) ==
  IF diffs = <<>> THEN <<>>
  ELSE (IF Head(diffs).path = path THEN <<Head(diffs)>> ELSE <<>>)
       \o Select(Tail(diffs), path)

\* C18: the ignoreOrder tag is local to its field: the tagged slice field is
\* compared as a multiset (unindexed Removed/Added records per surplus
\* value), the untagged slice field declared after it is still compared
\* position by position with indexed element diffs: the order setting of
\* the call is what it was before the tagged field was compared.
C18_IgnoreOrderLocal ==
  Done =>
    /\ Returned
    /\ \A v \in {IntV("int", n) : n \in Ints} :
         /\ Occurrences(out.result.Diffs, Diff("Items", v, NilV))
              = Monus(Occurrences(ItemsOf(left), v),
                      Occurrences(ItemsOf(right), v))
         /\ Occurrences(out.result.Diffs, Diff("Items", NilV, v))
              = Monus(Occurrences(ItemsOf(right), v),
                      Occurrences(ItemsOf(left), v))
    /\ \A i \in DOMAIN out.result.Diffs :
         out.result.Diffs[i].path = "Items" => out.result.Diffs[i].d = "Diff"
    /\ Select(out.result.Diffs, "Numbers")
         = PositionDiffs("Numbers", NumbersOf(left), NumbersOf(right), 0)
    /\ \A i \in DOMAIN out.result.Diffs :
         out.result.Diffs[i].path \in {"Items", "Numbers"}

\* Items permuted (no diff), Numbers permuted (two indexed diffs)
C18_Witness ==
  /\ Done /\ Returned
  /\ Len(ItemsOf(left)) = 2 /\ ItemsOf(left) # ItemsOf(right)
  /\ Select(out.result.Diffs, "Items") = <<>>
  /\ Len(Select(out.result.Diffs, "Numbers")) = 2


(***************************************************************************)
(* Diff tags (SpecDirective): hasDiffTag on every tag up to a length, then *)
(* Compare on a struct whose tags hold unknown tokens and blanks.          *)
(***************************************************************************)
MaxTag == 4

Pieces == {"ignore", "Order", "x", " ", ","}
Tags == UNION {[1..n -> Pieces] : n \in 0..MaxTag}
Directives == {"ignore", "ignoreOrder"}

BoolV(b) == IntV("bool", IF b THEN 1 ELSE 0)

TagStructItem(b, s, n, t, e) ==
  Item(<<SeqObj(e), Free>>,
       StructV("TagStruct", <<StrV(s), IntV("int", n), BoolV(t), StrV(s),
                              RefV("SliceInt", b + 1)>>))

InitDirective ==
  \E tag \in Tags, directive \in Directives, differ \in BOOLEAN :
    LET l == TagStructItem(0, "a", 1, TRUE,
                           <<IntV("int", 1), IntV("int", 2)>>)
        r == IF differ
               THEN TagStructItem(2, "b", 2, FALSE,
                                  <<IntV("int", 2), IntV("int", 1)>>)
               ELSE TagStructItem(2, "a", 1, TRUE,
                                  <<IntV("int", 1), IntV("int", 2)>>)
        sc == Scenario(l, r)
    IN
    /\ heap = sc.heap /\ left = sc.left /\ right = sc.right
    /\ opts = <<>> /\ config = DefaultCompareConfig
    /\ pc = "tag" /\ out = NoResult
    /\ tagCheck = [diffTag |-> tag, tagValue |-> directive,
                   called |-> FALSE, ret |-> FALSE]
    /\ proc = <<>> /\ ctx = <<>>

NextDirective == HasDiffTag \/ Compare

SpecDirective == InitDirective /\ [][NextDirective]_vars

Blank(str) == \A i \in DOMAIN str : str[i] = " "

\* str[a..b] is one of the comma-separated tokens of str
IsToken(str, a, b) ==
  /\ a = 1 \/ str[a - 1] = ","
  /\ b = Len(str) \/ str[b + 1] = ","
  /\ \A i \in a..b : str[i] # ","

\* value, with blanks around it, is one of the tokens of str
Applies(str, value) ==
  \E a \in 1..Len(str) + 1, b \in 0..Len(str) :
    /\ a <= b + 1
    /\ IsToken(str, a, b)
    /\ \E i \in a..b, j \in a..b :
         /\ SubSeq(str, i, j) = value
         /\ Blank(SubSeq(str, a, i - 1))
         /\ Blank(SubSeq(str, j + 1, b))

\* C19: a directive applies to a field exactly when, after trimming the
\* blanks around it, it equals one of the comma-separated tokens of the
\* field's diff tag; ignoreOrder does not activate ignore, and an unknown
\* token raises no error and does not disable a recognized token of the
\* same tag.
C19_Directives ==
  /\ tagCheck.called =>
       (tagCheck.ret <=> Applies(tagCheck.diffTag, Chars(tagCheck.tagValue)))
  /\ Done =>
       /\ Returned
       /\ left.f[1] = right.f[1] => ZeroDiffs
       /\ left.f[1] # right.f[1] =>
            out.result.Diffs =
              <<StructDiff("Field1", left.f[1], right.f[1], "Field1", "UPDATED"),
                StructDiff("Field3", left.f[3], right.f[3], "Field3", "UPDATED"),
                StructDiff("Field4", left.f[4], right.f[4], "Field4", "UPDATED")>>

\* ignoreOrder after an unknown token; every field differs
C19_Witness ==
  /\ Done /\ Len(out.result.Diffs) = 3
  /\ tagCheck.called /\ tagCheck.ret
  /\ tagCheck.tagValue = "ignoreOrder"
  /\ tagCheck.diffTag = <<"x", ",", "ignore", "Order">>

\* ignoreOrder does not activate ignore
C19_WitnessPartial ==
  /\ tagCheck.called /\ ~tagCheck.ret
  /\ tagCheck.tagValue = "ignore"
  /\ tagCheck.diffTag = <<" ", "ignore", "Order", " ">>


(***************************************************************************)
(* Concurrent calls (SpecConcurrent): two goroutines compare the same two  *)
(* cyclic structures, under WithMaxDepth(d).                               *)
(***************************************************************************)
ConcurrentOptionLists == {<<WithMaxDepth(d)>> : d \in 0..MaxLimit}

InitConcurrent ==
  \E n \in 1..MaxRing :
    \E j \in 1..n, ln \in [1..n -> Names], rn \in [1..n -> Names] :
      LET sc == RingScenario(n, j, ln, rn) IN
      /\ Cardinality({i \in 1..n : ln[i] # rn[i]}) <= 1
      /\ heap = sc.heap /\ left = sc.left /\ right = sc.right
      /\ opts \in ConcurrentOptionLists
      /\ config = DefaultCompareConfig
      /\ pc = "concurrent" /\ out = NoResult /\ tagCheck = NoTagCheck
      /\ proc = [p \in Procs |-> [pc |-> "start", l |-> left, r |-> right,
                                  path |-> "", stack |-> <<>>,
                                  diffs |-> <<>>, err |-> "nil",
                                  calls |-> 0]]
      /\ ctx = [p \in Procs |-> FreshContext]

NextConcurrent == \E p \in Procs : Call(p) \/ Values(p) \/ Unwind(p)

SpecConcurrent == InitConcurrent /\ [][NextConcurrent]_vars

Alone == CompareOp(heap, left, right, opts, 0)

\* C20: each top-level call of Compare owns its traversal context: under
\* every interleaving of two concurrent calls, each call returns the result
\* it returns when it runs alone.
C20_Isolation ==
  \A p \in Procs :
    proc[p].pc = "done" =>
      /\ Alone.err = "nil"
      /\ proc[p].diffs = Alone.result.Diffs

\* one call has returned its diff while the other is in the middle of its
\* traversal, two pointer pairs marked
C20_Witness ==
  /\ proc[1].pc = "done" /\ Len(proc[1].diffs) = 1
  /\ proc[2].pc = "values" /\ Cardinality(ctx[Context(2)].visitedPairs) = 2
  /\ Len(heap) = 6

(***************************************************************************)
(* Successive calls on one config.  The revision whose CompareWithConfig   *)
(* keeps the ignore set in the caller's config: the config outlives the    *)
(* call, and between two calls the caller assigns config.IgnoreFields.     *)
(***************************************************************************)

\* CompareWithConfig(left, right, config) on the caller's config: the ignore
\* set is built when the config has none and the list is not empty, and is
\* kept in the config
CompareWithConfigReused ==
  /\ pc = "ready"
  /\ config' = BuildIgnoreSet(config)
  /\ \E seed \in 0..MaxSeed :
       out' = CompareWithConfigOp(heap, left, right, config', seed)
  /\ pc' = "done"
  /\ UNCHANGED <<heap, left, right, opts, tagCheck, proc, ctx>>

ReuseLists == {<<>>} \cup {<<e>> : e \in {"Meta", "Value", "Left.Meta",
                                          "MyStruct.Meta"}}

\* config.IgnoreFields = fields, between two calls
SetIgnoreFields ==
  /\ pc = "done"
  /\ \E fields \in ReuseLists : config' = [config EXCEPT !.IgnoreFields = fields]
  /\ pc' = "ready"
  /\ UNCHANGED <<heap, left, right, opts, out, tagCheck, proc, ctx>>

InitReuse ==
  \E l \in NestedStructItems, r \in NestedStructItems :
    Start(Scenario(l, r), {<<>>},
          {[DefaultCompareConfig EXCEPT !.IgnoreFields = fields] :
             fields \in ReuseLists})

NextReuse == CompareWithConfigReused \/ SetIgnoreFields

SpecReuse == InitReuse /\ [][NextReuse]_vars

\* C21: when one config is reused for successive CompareWithConfig calls and
\* its IgnoreFields list is changed between the calls, each call ignores
\* exactly the fields of the list as it is at the time of that call.
C21_LastWins ==
  Done => (Returned /\ out.result.Diffs = UnlistedDiffs("", left, right, 1))

(***************************************************************************)
(* Structs with a non-public field (SpecUnexported): a                     *)
(* StructWithUnexported by value, behind a pointer, as a struct field, as  *)
(* an element of an array, of an array-typed struct field or of a slice,   *)
(* and as a map value.                                                     *)
(***************************************************************************)
UnexportedV(e, n) ==
  StructV("StructWithUnexported", <<StrV(e), IntV("int", n)>>)

UnexportedNestings(b, s, t) ==
  {Plain(s),
   Item(<<ValObj(s), Free>>, RefV("PtrUnexported", b + 1)),
   Item(<<ValObj(t), Free>>,
        StructV("WrapUnexported", <<s, RefV("PtrUnexported", b + 1)>>)),
   Plain(ArrayV("ArrUnexported", <<s, t>>)),
   Plain(StructV("WrapArrUnexported", <<ArrayV("ArrUnexported", <<s, t>>)>>)),
   Item(<<SeqObj(<<s, t>>), Free>>, RefV("SliceUnexported", b + 1)),
   Item(<<MapObj(<<Entry("a", s)>>), Free>>, RefV("MapUnexported", b + 1))}

UnexportedItems(b) ==
  UNION {UnexportedNestings(b, UnexportedV(e, n), UnexportedV(f, m)) :
           e \in Names, n \in Ints, f \in Names, m \in Ints}

InitUnexported ==
  \E l \in UnexportedItems(0), r \in UnexportedItems(2) :
    /\ TypeOf(l.v) = TypeOf(r.v)
    /\ Start(Scenario(l, r), {<<>>}, {DefaultCompareConfig})

SpecUnexported == InitUnexported /\ [][Next]_vars

\* the StructWithUnexported values that a nesting holds
UnexportedIn(v) ==
  CASE v.t = "StructWithUnexported" -> <<v>>
    [] v.t = "PtrUnexported" -> <<heap[v.a].v>>
    [] v.t = "WrapUnexported" -> <<v.f[1], heap[v.f[2].a].v>>
    [] v.t = "ArrUnexported" -> v.e
    [] v.t = "WrapArrUnexported" -> v.f[1].e
    [] v.t = "SliceUnexported" -> heap[v.a].e
    [] v.t = "MapUnexported" -> <<heap[v.a].m[1].val>>

DifferOnlyInUnexported ==
  LET l == UnexportedIn(left)
      r == UnexportedIn(right)
  IN /\ \A i \in DOMAIN l : l[i].f[1] = r[i].f[1]
     /\ \E i \in DOMAIN l : l[i].f[2] # r[i].f[2]

\* C22: non-public struct fields are never compared: two values that differ
\* only in the values of non-public fields give zero diffs, wherever the
\* struct that holds them is nested.
C22_UnexportedSilent ==
  (Done /\ DifferOnlyInUnexported) => ZeroDiffs

(***************************************************************************)
(* Slices nested in the elements of a slice (SpecNestedOrder): two [][]int *)
(* of two inner slices each, compared with IgnoreSliceOrder.               *)
(***************************************************************************)
SliceOfSlices(b, first, second) ==
  Item(<<SeqObj(<<RefV("SliceInt", b + 2), RefV("SliceInt", b + 3)>>),
         SeqObj(first), SeqObj(second)>>,
       RefV("SliceSliceInt", b + 1))

InitNestedOrder ==
  \E a \in ShortSeqs, b \in ShortSeqs, c \in ShortSeqs, d \in ShortSeqs :
    Start(Scenario(SliceOfSlices(0, a, b), SliceOfSlices(3, c, d)),
          {<<WithIgnoreSliceOrder>>}, {DefaultCompareConfig})

SpecNestedOrder == InitNestedOrder /\ [][Next]_vars

\* the elements of the i-th inner slice of v
Inner(v, i) == heap[heap[v.a].e[i].a].e

\* the two sequences hold the same values the same number of times
SameElements(s, t) ==
  /\ Len(s) = Len(t)
  /\ \A i \in DOMAIN s : Occurrences(s, s[i]) = Occurrences(t, s[i])

\* the two values differ at most in the order of the elements of their
\* slices, the outer one and the inner ones
DifferOnlyInOrder ==
  \/ /\ SameElements(Inner(left, 1), Inner(right, 1))
     /\ SameElements(Inner(left, 2), Inner(right, 2))
  \/ /\ SameElements(Inner(left, 1), Inner(right, 2))
     /\ SameElements(Inner(left, 2), Inner(right, 1))

\* C23: with IgnoreSliceOrder two values that differ only in the order of
\* the elements of slices, the slices nested in the elements of another
\* slice included, give zero diffs.
C23_NestedOrderIgnored ==
  (Done /\ DifferOnlyInOrder) => ZeroDiffs

(***************************************************************************)
(* The cycle guard over successive calls (SpecGuard): one goroutine calls  *)
(* CompareWithConfig on two cyclic structures up to MaxCalls times with    *)
(* the same config, which holds a depth limit and may hold a comparator    *)
(* for Node.                                                               *)
(***************************************************************************)
GuardConfigs ==
  {[DefaultCompareConfig EXCEPT !.MaxDepth = d, !.CustomComparators = cs] :
     d \in 0..MaxLimit,
     cs \in {{}} \cup {{Comparator("Node", fn)} :
                         fn \in {"equal", "unequal", "error"}}}

InitGuard ==
  \E n \in 1..MaxRing :
    \E j \in 1..n, ln \in [1..n -> Names], rn \in [1..n -> Names] :
      LET sc == RingScenario(n, j, ln, rn) IN
      /\ Cardinality({i \in 1..n : ln[i] # rn[i]}) <= 1
      /\ heap = sc.heap /\ left = sc.left /\ right = sc.right
      /\ opts = <<>>
      /\ config \in GuardConfigs
      /\ pc = "concurrent" /\ out = NoResult /\ tagCheck = NoTagCheck
      /\ proc = [p \in Procs |-> [pc |-> "start", l |-> left, r |-> right,
                                  path |-> "", stack |-> <<>>,
                                  diffs |-> <<>>, err |-> "nil",
                                  calls |-> 0]]
      /\ ctx = [p \in Procs |-> FreshContext]

NextGuard == CallWithConfig(1) \/ Values(1) \/ Unwind(1)

SpecGuard == InitGuard /\ [][NextGuard]_vars

\* the call on a config that no call has used
OnFresh == CompareWithConfigOp(heap, left, right, config, 0)

\* the pointer pairs of the pointer comparisons in progress
InProgress(stack) ==
  {stack[i].pair : i \in {j \in DOMAIN stack : stack[j].pair # <<>>}}

\* the invocations of compareValues in progress that counted themselves
Counted(stack) == Cardinality({i \in DOMAIN stack : stack[i].inc})

\* C24: during a traversal visitedPairs holds exactly the pointer pairs of
\* the pointer comparisons in progress and currentDepth is the number of
\* depth-counted invocations of compareValues in progress; when the call
\* returns, with or without an error, visitedPairs is empty and currentDepth
\* is 0, and every call on the config, the first or a later one, returns what
\* a call on a fresh config returns.
C24_GuardPairing ==
  LET me == proc[1]
      c == ctx[Context(1)]
  IN /\ me.pc \in {"values", "return"} =>
          /\ c.visitedPairs = InProgress(me.stack)
          /\ c.currentDepth = Counted(me.stack)
     /\ me.pc = "done" =>
          /\ c.visitedPairs = {}
          /\ c.currentDepth = 0
          /\ me.err = OnFresh.err
          /\ me.err = "nil" => me.diffs = OnFresh.result.Diffs

\* the second call on the config, in the middle of its traversal: two pairs
\* marked, three invocations counted
C24_Witness ==
  /\ proc[1].calls = 2 /\ proc[1].pc = "values"
  /\ Cardinality(ctx[Context(1)].visitedPairs) = 2
  /\ ctx[Context(1)].currentDepth = 3

\* the second call on the config has returned the comparator's error
C24_WitnessError ==
  /\ proc[1].calls = 2 /\ proc[1].pc = "done" /\ proc[1].err = "error"
  /\ ctx[Context(1)].visitedPairs = {}

(***************************************************************************)
(* Shared references (SpecShared): a Shared struct whose two pointer       *)
(* fields lead into one acyclic structure of two Nodes; the left and the   *)
(* right value have the same shape and differ in the names of the Nodes.   *)
(***************************************************************************)
SharedItem(b, first, second, next, n1, n2) ==
  Item(<<ValObj(NodeV(n1, IF next THEN b + 2 ELSE 0)), ValObj(NodeV(n2, 0))>>,
       StructV("Shared", <<RefV("PtrNode", b + first),
                           RefV("PtrNode", b + second)>>))

InitShared ==
  \E first \in 1..2, second \in 1..2, next \in BOOLEAN :
    \E l1 \in Names, l2 \in Names, r1 \in Names, r2 \in Names :
      Start(Scenario(SharedItem(0, first, second, next, l1, l2),
                     SharedItem(2, first, second, next, r1, r2)),
            {<<>>}, {DefaultCompareConfig})

SpecShared == InitShared /\ [][Next]_vars

RECURSIVE NodeDiffs(_, _, _)
\* the diffs of the Name fields along the path from two Node pointers of
\* structures of one shape
NodeDiffs(path, l, r) ==
  IF IsNil(l) THEN <<>>
  ELSE LET ln == heap[l.a].v
           rn == heap[r.a].v
           name == IF ln.f[1] # rn.f[1]
                     THEN <<StructDiff(FieldPath(path, "Name"), ln.f[1],
                                       rn.f[1], "Name", "UPDATED")>>
                     ELSE <<>>
       IN name \o NodeDiffs(FieldPath(path, "Next"), ln.f[2], rn.f[2])

\* C25: in an acyclic structure a pointer pair reachable through two paths
\* is compared once per path: the diffs of its pointees are reported under
\* each path, and the first visit does not suppress the second.
C25_OncePerPath ==
  Done =>
    /\ Returned
    /\ out.result.Diffs = NodeDiffs("First", left.f[1], right.f[1])
                            \o NodeDiffs("Second", left.f[2], right.f[2])

\* both fields point to the same Node, whose name differs: one diff under
\* each field
C25_Witness ==
  /\ Done /\ left.t = "Shared" /\ left.f[1].a = left.f[2].a
  /\ Len(out.result.Diffs) = 2
  /\ out.result.Diffs[1].path = "First.Name"
  /\ out.result.Diffs[2].path = "Second.Name"

(***************************************************************************)
(* Override order (SpecOverride): two Tagged structs or two *int at the    *)
(* root, under a comparator and a list of user handlers for either type.   *)
(***************************************************************************)
Verdicts == {"equal", "unequal", "error"}
OverrideTypes == {"Tagged", "PtrInt"}

OverrideComparators ==
  {{}} \cup {{Comparator(t, fn)} : t \in OverrideTypes, fn \in Verdicts}

OverrideHandlers ==
  LET hs == {UserHandler(t, fn) : t \in OverrideTypes, fn \in Verdicts}
  IN {<<>>} \cup {<<g>> : g \in hs} \cup {<<g, k>> : g \in hs, k \in hs}

OverrideOptionLists ==
  {<<WithCustomComparators(cs)>> : cs \in OverrideComparators}
  \cup {<<WithCustomComparators(cs), WithTypeHandlers(hs)>> :
          cs \in OverrideComparators, hs \in OverrideHandlers}

OverrideItems(b) ==
  {Plain(TaggedV(a, n)) : a \in Names, n \in Ints}
  \cup PtrItems(b) \cup {Plain(RefV("PtrInt", 0))}

InitOverride ==
  \E l \in OverrideItems(0) :
    \/ \E r \in OverrideItems(2) :
         /\ TypeOf(l.v) = TypeOf(r.v)
         /\ Start(Scenario(l, r), OverrideOptionLists, {DefaultCompareConfig})
    \/ Start(Reflexive(l), OverrideOptionLists, {DefaultCompareConfig})

SpecOverride == InitOverride /\ [][Next]_vars

OverrideConfig == ApplyOptions(DefaultCompareConfig, opts, 1)

\* comparators and handlers invoked during the call
RootInvoked == (CHOOSE c \in out.calls : c.level = 0).invoked

\* the call ends as one invocation of a comparator or handler with verdict fn
\* decides, and nothing else is invoked
DecidedBy(fn) ==
  /\ RootInvoked = 1
  /\ out.err = (IF fn = "error" THEN "error" ELSE "nil")
  /\ out.result =
       (IF fn = "error" THEN [nil |-> TRUE, Diffs |-> <<>>]
        ELSE [nil |-> FALSE,
              Diffs |-> IF fn = "unequal" THEN <<Diff("", left, right)>>
                        ELSE <<>>])

\* the call ends as the kind-based comparison of the two values ends
KindBased ==
  /\ RootInvoked = 0
  /\ out.err = "nil"
  /\ out.result = CompareOp(heap, left, right, <<>>, 0).result

\* the registered handlers for type t, by position in the list
Accepting(t) ==
  {i \in DOMAIN OverrideConfig.TypeHandlers :
     /\ OverrideConfig.TypeHandlers[i].name = "UserHandler"
     /\ OverrideConfig.TypeHandlers[i].type = t}

OverrideOrder ==
  LET t == TypeOf(left)
      registered == {c \in OverrideConfig.CustomComparators : c.type = t}
  IN IF registered # {}
       THEN \E c \in registered : DecidedBy(c.fn)
     ELSE IF Accepting(t) # {}
       THEN \E i \in Accepting(t) :
              /\ \A k \in Accepting(t) : i <= k
              /\ DecidedBy(OverrideConfig.TypeHandlers[i].fn)
     ELSE KindBased

\* the two values are one reference: the same address, or two nil pointers
SameReference == IsRef(left) /\ Pointer(left) = Pointer(right)

\* C26 as stated: for two values of one type the comparator registered for
\* the type decides; else the first handler in registration order that
\* accepts the type; else the kind-based comparison.
C26_OverrideOrder ==
  Done => OverrideOrder

\* C26: for two values of one type that are not one reference, the
\* comparator registered for the type decides and nothing else runs; else the
\* first handler in registration order that accepts the type; else the
\* kind-based comparison.  Two values that are one reference give zero diffs
\* and nothing is invoked.
C26_OverrideOrderDistinct ==
  Done =>
    /\ ~SameReference => OverrideOrder
    /\ SameReference => (ZeroDiffs /\ RootInvoked = 0)

\* a comparator declares two differing structs equal although the first of
\* two handlers for the type declares them unequal
C26_Witness ==
  /\ Done /\ left.k = "struct" /\ left # right
  /\ HasComparator(OverrideConfig, "Tagged")
  /\ ComparatorFor(OverrideConfig, "Tagged").fn = "equal"
  /\ Len(OverrideConfig.TypeHandlers) = 2
  /\ OverrideConfig.TypeHandlers[1] = UserHandler("Tagged", "unequal")
  /\ ZeroDiffs

\* no comparator for the type, two handlers accept it: the first one decides
C26_WitnessHandler ==
  /\ Done /\ left.k = "ptr" /\ ~SameReference
  /\ ~HasComparator(OverrideConfig, "PtrInt")
  /\ Len(OverrideConfig.TypeHandlers) = 2
  /\ OverrideConfig.TypeHandlers[1] = UserHandler("PtrInt", "unequal")
  /\ OverrideConfig.TypeHandlers[2] = UserHandler("PtrInt", "equal")
  /\ Len(out.result.Diffs) = 1

(***************************************************************************)
(* A comparator for Tagged at every position (SpecNested).                 *)
(***************************************************************************)
\* the comparator for Tagged with verdict fn is the only option
ComparatorIs(fn) == opts = <<WithCustomComparators({Comparator("Tagged", fn)})>>

\* nothing but the Tagged pair can differ
OnlyTaggedPair == left.t = "Pair" => left.f[1] = right.f[1]

\* C27: a comparator registered for Tagged decides every pair of Tagged
\* values, at the root, in a struct field, as a slice or array element, as a
\* map value or behind a pointer: no diff for a pair it declares equal, a
\* diff carrying the pair for a pair it declares unequal.
C27_ComparatorDecides ==
  (Done /\ OnlyTaggedPair) =>
    /\ ComparatorIs("equal") => ZeroDiffs
    /\ ComparatorIs("unequal") =>
         /\ Returned
         /\ \E i \in DOMAIN out.result.Diffs :
              /\ out.result.Diffs[i].left = TaggedIn(left)
              /\ out.result.Diffs[i].right = TaggedIn(right)

(***************************************************************************)
(* The two order-insensitive strategies (SpecStrategies): two []*int or    *)
(* two []any of at most one element each, followed on both sides by the    *)
(* same extra elements, none to SmallSlice of them, compared with          *)
(* IgnoreSliceOrder.  A pointer element of the right slice points to its   *)
(* own int or to the int of the left slice.                                *)
(***************************************************************************)
\* a slice of type t at base b: elems, with object obj next to it
SliceWith(b, t, elems, obj) == Item(<<SeqObj(elems), obj>>, RefV(t, b + 1))

PtrSlices(b, extra) ==
  {SliceWith(b, "SlicePtrInt", extra, Free),
   SliceWith(b, "SlicePtrInt", <<RefV("PtrInt", 0)>> \o extra, Free)}
  \cup {SliceWith(b, "SlicePtrInt", <<RefV("PtrInt", a)>> \o extra,
                  ValObj(IntV("int", n))) : a \in {2, b + 2}, n \in Ints}

AnySlices(b, extra) ==
  {SliceWith(b, "SliceAny", extra, Free),
   SliceWith(b, "SliceAny", <<RefV("SliceInt", b + 2)>> \o extra,
             SeqObj(<<IntV("int", 1)>>))}
  \cup {SliceWith(b, "SliceAny", <<v>> \o extra, Free) :
          v \in {IntV("int", 1), IntV("int", 2), StrV("a"), NilV}}

InitStrategies ==
  \E k \in 0..SmallSlice :
    \/ \E l \in PtrSlices(0, Repeat(RefV("PtrInt", 0), k)),
          r \in PtrSlices(2, Repeat(RefV("PtrInt", 0), k)) :
         /\ RefV("PtrInt", 2) \in SeqToSet(r.objs[1].e) => l.objs[2] # Free
         /\ Start(Scenario(l, r), {<<WithIgnoreSliceOrder>>},
                  {DefaultCompareConfig})
    \/ \E l \in AnySlices(0, Repeat(IntV("int", 1), k)),
          r \in AnySlices(2, Repeat(IntV("int", 1), k)) :
         Start(Scenario(l, r), {<<WithIgnoreSliceOrder>>},
               {DefaultCompareConfig})

SpecStrategies == InitStrategies /\ [][Next]_vars

\* the last k elements of the two slices are the same values
SameExtra(k) ==
  /\ k <= Len(LeftElems) /\ k <= Len(RightElems)
  /\ \A i \in 1..k : LeftElems[Len(LeftElems) + 1 - i]
                       = RightElems[Len(RightElems) + 1 - i]

\* the heap with the last k elements of the two slices taken off
Without(k) ==
  [heap EXCEPT ![left.a].e = SubSeq(@, 1, Len(@) - k),
               ![right.a].e = SubSeq(@, 1, Len(@) - k)]

\* C28: the small-set matching and the multiset counting agree: taking the
\* same extra elements off both slices never changes the Removed and Added
\* values that the call reports.
C28_StrategiesAgree ==
  Done =>
    \A k \in 0..SmallSlice :
      SameExtra(k) =>
        \E seed \in 0..MaxSeed :
          LET short == CompareOp(Without(k), left, right, opts, seed) IN
          /\ out.err = short.err
          /\ SameElements(out.result.Diffs, short.result.Diffs)

(***************************************************************************)
(* Ignored paths (SpecIgnoredPath): two map[string]int, two []int or two   *)
(* NestedStruct, with one path in the ignore list, in order or with        *)
(* IgnoreSliceOrder.                                                       *)
(***************************************************************************)
IgnoredPaths == {"", "[a]", "[0]", "Left.Meta", "Right"}

IgnoredPathOptionLists ==
  {<<WithIgnoreFields(<<e>>)>> : e \in IgnoredPaths}
  \cup {<<WithIgnoreFields(<<e>>), WithIgnoreSliceOrder>> : e \in IgnoredPaths}

InitIgnoredPath ==
  \/ \E lk \in KeyVectors, rk \in KeyVectors :
       Start(Scenario(IntMap(0, lk), IntMap(2, rk)), IgnoredPathOptionLists,
             {DefaultCompareConfig})
  \/ \E l \in ShortSeqs, r \in ShortSeqs :
       Start(Scenario(IntSlice(0, l), IntSlice(2, r)), IgnoredPathOptionLists,
             {DefaultCompareConfig})
  \/ \E l \in NestedStructItems, r \in NestedStructItems :
       Start(Scenario(l, r), IgnoredPathOptionLists, {DefaultCompareConfig})

SpecIgnoredPath == InitIgnoredPath /\ [][Next]_vars

\* C29: no diff of a returned result has a path that the ignore list holds,
\* whichever comparator emitted it.
C29_NoIgnoredPath ==
  (Done /\ Returned) =>
    \A i \in DOMAIN out.result.Diffs : out.result.Diffs[i].path \notin IgnoreList

(***************************************************************************)
(* Symmetry (Spec).                                                        *)
(***************************************************************************)
Exchanged(changeType) ==
  CASE changeType = "ADDED" -> "REMOVED"
    [] changeType = "REMOVED" -> "ADDED"
    [] OTHER -> changeType

\* the record with left and right swapped and Added exchanged with Removed
Mirror(d) ==
  LET swapped == [d EXCEPT !.left = d.right, !.right = d.left] IN
  IF d.d = "Diff" THEN swapped
  ELSE [swapped EXCEPT !.changeType = Exchanged(@)]

\* C30: without custom comparators Compare(a, b) and Compare(b, a) return
\* the same number of diffs, and the records correspond one to one with left
\* and right swapped and Added exchanged with Removed.
C30_Symmetric ==
  Done =>
    \E seed \in 0..MaxSeed :
      LET back == CompareOp(heap, right, left, opts, seed)
          mirrored == [i \in DOMAIN back.result.Diffs |->
                         Mirror(back.result.Diffs[i])]
      IN /\ out.err = back.err
         /\ SameElements(out.result.Diffs, mirrored)

====
